---- MODULE Spec2Model ----
(***************************************************************************)
(* A model of the leveled, multi-destination logger of bialas1993/log.     *)
(*                                                                         *)
(* The repository holds four revisions of the same package; the variable   *)
(* rev says which one a behaviour runs:                                    *)
(*   "init"    src/unnamed/part_000   Init(name, verbose, systemLog,       *)
(*                                    logFile) and New(), no severity gate *)
(*   "mask"    src/unnamed/part_001   levels are bits of a mask            *)
(*   "ordered" src/logger.go          ordered levels, Fatal = 0            *)
(*   "panic"   src/example_test.go    ordered levels with a Panic level    *)
(*             (lines 36-668)         and persistent context fields        *)
(* A text is a sequence of tokens: words, and the separators " ", "=",     *)
(* quotes and braces the formatters insert.                                *)
(***************************************************************************)
EXTENDS Integers, Sequences, FiniteSets, TLC

VARIABLES
    rev,            \* the revision of the package that runs
    proc,           \* "load" (before package init), "run", "exited", "panicked"
    patched,        \* TRUE: a harness intercepts os.Exit and recovers panics
    loggers,        \* the logger objects allocated so far, by identity 1..Len
    defaultLogger,  \* the package variable: an identity, 0 while nil
    closed,         \* per system-log handle, how often its Close was invoked
    installs,       \* constructor calls that replaced defaultLogger since the last initialize()
    last,           \* the last call: its inputs, and its effects on the destinations,
                    \* the handles and the process, in the order they happened
    routines,       \* goroutines that call one logger concurrently: their positions
                    \* inside With and Info, the holder of logLock, and the writes so far
    inner           \* the keys of a LogFields map the caller owns and passes as the
                    \* value of a field

vars == <<rev, proc, patched, loggers, defaultLogger, closed, installs, last, routines, inner>>

(***************************************************************************)
(* Bounds of the model.                                                    *)
(***************************************************************************)
MaxLoggers == 5     \* logger objects allocated in one behaviour
MaxClose == 2       \* Close calls one handle receives

Revs == {"init", "mask", "ordered", "panic"}

\* the revisions whose logger has no formatter object: the text is built by
\* logger.formatFields inside output, and With replaces the fields
Bare(r) == r \in {"init", "mask"}

(***************************************************************************)
(* Output flags (the bits of log.Ldate ...).                               *)
(***************************************************************************)
Ldate == 1
Ltime == 2
Lmicroseconds == 4
Llongfile == 8
Lshortfile == 16
LUTC == 32
Lmsgprefix == 64
LstdFlags == Ldate + Ltime
Ldisable == 0

\* flags & bit != 0, for a single bit
HasBit(flags, bit) == (flags \div bit) % 2 = 1

\* the flags the fallback logger's channels are built with
initFlags == Ldate + Lmicroseconds + Lshortfile

tagDebug == "DEBUG: "
tagInfo == "INFO : "
tagWarning == "WARN : "
tagError == "ERROR: "
tagPanic == "PANIC: "
tagFatal == "FATAL: "
initText == "ERROR: Logging before logger.Init.\n"

tag(s) ==
    CASE s = "debug" -> tagDebug
      [] s = "info" -> tagInfo
      [] s = "warning" -> tagWarning
      [] s = "error" -> tagError
      [] s = "panic" -> tagPanic
      [] s = "fatal" -> tagFatal

(***************************************************************************)
(* Severity levels.  A severity is named by its levelMap string; Level     *)
(* gives the number the revision passes to output.                         *)
(***************************************************************************)
LevelOrdered == [fatal |-> 0, error |-> 1, warning |-> 2, info |-> 3, debug |-> 4]
LevelPanic == [fatal |-> 0, panic |-> 1, error |-> 2, warning |-> 3, info |-> 4, debug |-> 5]
sMask == [fatal |-> 0, error |-> 1, warning |-> 2, info |-> 3, debug |-> 4]
severity == [info |-> 0, warning |-> 1, error |-> 2, fatal |-> 3]

Level(r) ==
    CASE r = "init" -> severity
      [] r = "mask" -> sMask
      [] r = "ordered" -> LevelOrdered
      [] r = "panic" -> LevelPanic

Sevs(r) == DOMAIN Level(r)

\* the mask revision's LevelX constants: 1 << iota
LevelBit(s) == 2 ^ sMask[s]

LevelDefault(r) ==
    CASE r = "init" -> 0        \* the zero value: no constructor sets l.level
      [] r = "mask" -> LevelBit("fatal") + LevelBit("error") + LevelBit("warning") + LevelBit("info")
      [] r = "ordered" -> LevelOrdered.info
      [] r = "panic" -> LevelPanic.info

\* the values SetLevel is called with
LevelInputs(r) ==
    CASE r = "init" -> 0 .. 2
      [] r = "mask" -> 0 .. (2 * LevelBit("debug") - 1)
      [] r = "ordered" -> 0 .. LevelOrdered.debug
      [] r = "panic" -> 0 .. LevelPanic.debug

(***************************************************************************)
(* The severity gate of output.                                            *)
(***************************************************************************)
gateThreshold(r, level, s) == level >= s

gateAlways(r, level, s) == TRUE

gateStrict(r, level, s) == IF r = "mask" THEN (level \div (2 ^ s)) % 2 = 1 ELSE level > s

gate(r, level, s) ==
    CASE r = "init" -> TRUE                          \* output tests nothing
      [] r = "mask" -> (level \div (2 ^ s)) % 2 = 1  \* l.level&(1<<s) != 0
      [] OTHER -> level >= s                         \* l.level >= s

(***************************************************************************)
(* Field sets: LogFields, a map from keys to values.                       *)
(***************************************************************************)
Keys == {"a", "msg"}

IntVal(n) == [t |-> "int", n |-> n, s |-> <<>>]
StrVal(s) == [t |-> "string", n |-> 0, s |-> s]

Vals == {IntVal(7), StrVal(<<"x", " ", "y">>)}

\* what l.fields[key] gives for a key the map does not hold: a nil interface
NilVal == [t |-> "nil", n |-> 0, s |-> <<>>]

\* a field value that is itself a LogFields map, owned by the caller:
\* LogFields{"a": 1, "msg": 1} before any call
MapVal == [t |-> "map", n |-> 0, s |-> <<>>]
InnerKeys == {"a", "msg"}

NoFields == [k \in {} |-> IntVal(0)]

FieldSets == UNION {[D -> Vals] : D \in SUBSET Keys}

AddFirstWins(l, newFields) ==
    [k \in DOMAIN l \cup DOMAIN newFields |-> IF k \in DOMAIN l THEN l[k] ELSE newFields[k]]

Add(l, newFields) ==
    IF Cardinality(DOMAIN l) = 0 THEN newFields
    ELSE IF Cardinality(DOMAIN newFields) = 0 THEN l
    ELSE [k \in DOMAIN l \cup DOMAIN newFields |->
              IF k \in DOMAIN newFields THEN newFields[k] ELSE l[k]]

(***************************************************************************)
(* Formatters.                                                             *)
(***************************************************************************)
\* sort.Strings over the keys the model uses: ascending byte order
keyOrder == <<"a", "file", "level", "msg", "time">>

sortStringsDescending(D) ==
    LET n == Len(keyOrder)
    IN  SelectSeq([i \in 1 .. n |-> keyOrder[n + 1 - i]], LAMBDA k : k \in D)

sortStrings(D) == SelectSeq(keyOrder, LAMBDA k : k \in D)

\* fmt.Sprintf("%v", m) of the map the caller owns: map[k:1 ...], keys sorted
RECURSIVE mapPairs(_)
mapPairs(keys) ==
    IF keys = <<>> THEN <<>>
    ELSE <<Head(keys), ":", "1">> \o (IF Len(keys) > 1 THEN <<" ">> ELSE <<>>)
         \o mapPairs(Tail(keys))

\* fmt.Sprintf("%v", value)
Sprintv(value) ==
    CASE value.t = "int" -> <<ToString(value.n)>>
      [] value.t = "nil" -> <<"<nil>">>
      [] value.t = "map" -> <<"map[">> \o mapPairs(sortStrings(inner)) \o <<"]">>
      [] OTHER -> value.s

\* strings.Contains(valueStr, " ")
ContainsSpace(txt) == \E i \in DOMAIN txt : txt[i] = " "

valueStr(value) ==
    IF ContainsSpace(Sprintv(value))
    THEN <<"\"">> \o Sprintv(value) \o <<"\"">>
    ELSE Sprintv(value)

RECURSIVE formatKeys(_, _)
formatKeys(keys, fields) ==
    IF keys = <<>> THEN <<>>
    ELSE <<Head(keys), "=">> \o valueStr(fields[Head(keys)]) \o <<" ">>
         \o formatKeys(Tail(keys), fields)

\* StdFormatter.formatFields (and logger.formatFields of the mask revision)
formatFields(fields) == formatKeys(sortStrings(DOMAIN fields), fields)

\* StdFormatter.Output
StdOutput(flags, lvl, fields, msg) == formatFields(fields) \o msg

\* JsonFormatter.createHeadersFields: the wall clock and the caller's place
\* are read from the environment; the model keeps which of them is present
createHeadersFields(flags) ==
    LET hasTime == HasBit(flags, Ldate) \/ HasBit(flags, Ltime) \/ HasBit(flags, Lmicroseconds)
        hasFile == HasBit(flags, Lshortfile) \/ HasBit(flags, Llongfile)
        D == (IF hasTime THEN {"time"} ELSE {}) \cup (IF hasFile THEN {"file"} ELSE {})
    IN  [k \in D |-> IF k = "time" THEN StrVal(<<"<now>">>) ELSE StrVal(<<"<caller>">>)]

RECURSIVE innerPairs(_)
innerPairs(keys) ==
    IF keys = <<>> THEN <<>>
    ELSE <<"\"", Head(keys), "\"", ":", "1">> \o (IF Len(keys) > 1 THEN <<",">> ELSE <<>>)
         \o innerPairs(Tail(keys))

\* LogFields.MarshalJSON of the map the caller owns: msg first, then the rest
MarshalInner == <<"{">> \o innerPairs(SelectSeq(<<"msg", "a">>, LAMBDA k : k \in inner)) \o <<"}">>

\* json.Marshal of one value
jsonValue(value) ==
    CASE value.t = "int" -> <<ToString(value.n)>>
      [] value.t = "map" -> MarshalInner
      [] OTHER -> <<"\"">> \o value.s \o <<"\"">>

\* the keys of the caller's map after formatter f rendered fields:
\* LogFields.MarshalJSON deletes time, level and msg from the map it is
\* called on, and json.Marshal calls it on a value that is a LogFields
Marshalled(f, fields) ==
    IF f = "json" /\ \E k \in DOMAIN fields : fields[k].t = "map"
    THEN inner \ {"time", "level", "msg"}
    ELSE inner

RECURSIVE jsonPairs(_, _)
jsonPairs(keys, fields) ==
    IF keys = <<>> THEN <<>>
    ELSE <<"\"", Head(keys), "\"", ":">> \o jsonValue(fields[Head(keys)])
         \o (IF Len(keys) > 1 THEN <<",">> ELSE <<>>)
         \o jsonPairs(Tail(keys), fields)

\* the orders a Go map range can produce
Orders(S) == {p \in [1 .. Cardinality(S) -> S] : \A i, j \in DOMAIN p : i # j => p[i] # p[j]}

\* LogFields.MarshalJSON: time, level, msg first, the rest in map order
MarshalJSON(l) ==
    LET reserved == SelectSeq(<<"time", "level", "msg">>, LAMBDA k : k \in DOMAIN l)
        rest == DOMAIN l \ {"time", "level", "msg"}
    IN  {<<"{">> \o jsonPairs(reserved \o p, l) \o <<"}">> : p \in Orders(rest)}

\* JsonFormatter.Output: the texts it can return
JsonOutput(flags, lvl, fields, msg) ==
    LET headersFields == createHeadersFields(flags)
        msgFields == [k \in {"msg", "level"} |->
                          IF k = "msg" THEN StrVal(msg) ELSE StrVal(<<lvl>>)]
    IN  MarshalJSON(Add(Add(fields, msgFields), headersFields))

Formatters(r) ==
    CASE r = "init" -> {"std"}
      [] r = "mask" -> {"std"}
      [] r = "ordered" -> {"std", "json"}
      [] r = "panic" -> {"std", "json", "color"}

\* Formatter.Output, by formatter
Output(f, flags, lvl, fields, msg) ==
    IF f = "json" THEN JsonOutput(flags, lvl, fields, msg)
    ELSE {StdOutput(flags, lvl, fields, msg)}

\* HasSettings (ordered revision), HasFlags (panic revision)
HasFlags(f) == f = "json"

\* HasSettings (ordered revision), HasPrefixes (panic revision)
HasPrefixes(r, f) == f = "json" \/ (r = "panic" /\ f = "color")

\* Formatter.Flags
Flags(f) == IF f = "json" THEN Ldisable ELSE 0

color(s) ==
    CASE s = "debug" -> "\\x1b[37;1m"
      [] s = "panic" -> "\\x1b[30;1m"
      [] s = "error" -> "\\x1b[31;1m"
      [] s = "fatal" -> "\\x1b[31;1m"
      [] s = "warning" -> "\\x1b[33;1m"
      [] s = "info" -> "\\x1b[36;1m"

\* Formatter.Prefixes()[level]; the JSON map has no entry for LevelPanic,
\* and a missing entry reads as ""
Prefixes(f, s) == IF f = "color" THEN <<color(s), tag(s), "\\x1b[0m">> ELSE <<>>

(***************************************************************************)
(* Writers.  A writer is a destination and, for a system-log handle, the   *)
(* logger whose constructor acquired it.  Assigning a nil *syslog.Writer   *)
(* to an io.Writer variable gives a non-nil interface holding a nil        *)
(* pointer: nilptr.                                                        *)
(***************************************************************************)
W(dst) == [dst |-> dst, h |-> 0, nilptr |-> FALSE]

NilW == W("nil")
Stdout == W("stdout")
Stderr == W("stderr")

\* the explicit writers callers pass to New: two bytes.Buffer
Buffers == {W("buf1"), W("buf2")}

\* an explicit writer whose Write returns an error and that has no Close
ErrWriter == W("errw")

SyslogDsts == {"syslog.debug", "syslog.notice", "syslog.warning", "syslog.err", "syslog.crit"}

Dsts == {"buf1", "buf2", "stdout", "stderr"} \cup SyslogDsts

Handles == {[dst |-> d, h |-> i, nilptr |-> FALSE] : d \in SyslogDsts, i \in 1 .. MaxLoggers + 1}

\* w.(io.Closer): *syslog.Writer has Close, *bytes.Buffer has not
IsCloser(w) == w.dst \in SyslogDsts

\* setup of logger_syslog.go for the logger with identity id: five handles,
\* or five nil pointers and the error
setup(id, sys) ==
    LET hd(d) == [dst |-> d, h |-> id, nilptr |-> sys # "ok"]
    IN  [dl |-> hd("syslog.debug"), il |-> hd("syslog.notice"), wl |-> hd("syslog.warning"),
         el |-> hd("syslog.err"), pl |-> hd("syslog.crit"), err |-> sys # "ok"]

NoCtx == [has |-> FALSE, ptr |-> FALSE, f |-> NoFields]

\* log.New(out, prefix, flag)
logNew(ws, prefix, flag) == [w |-> ws, prefix |-> prefix, flags |-> flag]

initLoggerStd(r) ==
    [log |-> [s \in Sevs(r) |-> logNew(<<Stdout>>, <<tag(s)>>, initFlags)],
     formatter |-> "std",
     closers |-> <<>>,
     initialized |-> FALSE,
     level |-> LevelDefault(r),
     flags |-> IF Bare(r) THEN 0 ELSE LstdFlags,
     fields |-> NoFields,
     ctx |-> NoCtx]

\* the logger initialize() builds: every channel on stderr, behind the warning
initLogger(r) ==
    [log |-> [s \in Sevs(r) |-> logNew(<<Stderr>>, <<initText, tag(s)>>, initFlags)],
     formatter |-> "std",
     closers |-> <<>>,
     initialized |-> FALSE,
     level |-> LevelDefault(r),
     flags |-> IF Bare(r) THEN 0 ELSE LstdFlags,
     fields |-> NoFields,
     ctx |-> NoCtx]

\* new, up to l.initialized = true: the logger and whether setup failed
new(r, id, systemLog, logFile, f, sys) ==
    LET su == IF systemLog THEN setup(id, sys)
              ELSE [dl |-> NilW, il |-> NilW, wl |-> NilW, el |-> NilW, pl |-> NilW, err |-> FALSE]
        file == IF logFile # NilW THEN <<logFile>> ELSE <<>>
        opt(w, a) == IF w # NilW THEN <<a>> ELSE <<>>
        dLogs == file \o opt(su.dl, su.il) \o <<Stdout>>     \* appends il where dl is set
        iLogs == file \o opt(su.il, su.il) \o <<Stdout>>
        wLogs == file \o opt(su.wl, su.wl) \o <<Stdout>>
        eLogs == file \o opt(su.el, su.el) \o <<Stderr>>
        pLogs == file \o opt(su.pl, su.pl) \o <<Stderr>>
        lflags == IF r = "mask" THEN 0
                  ELSE IF HasFlags(f) THEN (IF r = "panic" THEN Flags(f) ELSE Ldisable)
                  ELSE LstdFlags
        chflags == IF r = "mask" THEN initFlags ELSE lflags
        prefix(s) == IF r # "mask" /\ HasPrefixes(r, f)
                     THEN (IF r = "panic" THEN Prefixes(f, s) ELSE <<>>)
                     ELSE <<tag(s)>>
        outs(s) == CASE s = "debug" -> dLogs
                     [] s = "info" -> iLogs
                     [] s = "warning" -> wLogs
                     [] s = "error" -> eLogs
                     [] s = "panic" -> pLogs
                     [] s = "fatal" -> eLogs
        cands == <<logFile, su.il, su.wl, su.el>> \o (IF r = "panic" THEN <<su.pl>> ELSE <<>>)
    IN  [l |-> [log |-> [s \in Sevs(r) |-> logNew(outs(s), prefix(s), chflags)],
                formatter |-> f,
                closers |-> SelectSeq(cands, IsCloser),
                initialized |-> TRUE,
                level |-> LevelDefault(r),
                flags |-> lflags,
                fields |-> NoFields,
                ctx |-> NoCtx],
         err |-> su.err]

\* Init(name, verbose, systemLog, logFile) of the init revision, up to
\* l.initialized = true: logFile heads every fan-out even when it is nil,
\* os.Stdout is added only when verbose, setup returns three handles
InitLogger(id, verbose, systemLog, logFile, sys) ==
    LET su == IF systemLog THEN setup(id, sys)
              ELSE [il |-> NilW, wl |-> NilW, el |-> NilW, err |-> FALSE]
        opt(w) == IF w # NilW THEN <<w>> ELSE <<>>
        out == IF verbose THEN <<Stdout>> ELSE <<>>
        iLogs == <<logFile>> \o opt(su.il) \o out
        wLogs == <<logFile>> \o opt(su.wl) \o out
        eLogs == <<logFile>> \o opt(su.el) \o <<Stderr>>
        outs(s) == CASE s = "info" -> iLogs
                     [] s = "warning" -> wLogs
                     [] s = "error" -> eLogs
                     [] s = "fatal" -> eLogs
    IN  [l |-> [log |-> [s \in Sevs("init") |-> logNew(outs(s), <<tag(s)>>, initFlags)],
                formatter |-> "std",
                closers |-> SelectSeq(<<logFile, su.il, su.wl, su.el>>, IsCloser),
                initialized |-> TRUE,
                level |-> LevelDefault("init"),
                flags |-> 0,
                fields |-> NoFields,
                ctx |-> NoCtx],
         err |-> su.err]

\* New() of the init revision, up to l.initialized = true
NewLogger ==
    LET outs(s) == IF s \in {"info", "warning"} THEN <<Stdout>> ELSE <<Stderr>>
    IN  [l |-> [log |-> [s \in Sevs("init") |-> logNew(outs(s), <<tag(s)>>, initFlags)],
                formatter |-> "std",
                closers |-> <<>>,
                initialized |-> TRUE,
                level |-> LevelDefault("init"),
                flags |-> 0,
                fields |-> NoFields,
                ctx |-> NoCtx],
         err |-> FALSE]

\* the logger a constructor call of revision r builds: new(name, systemLog,
\* logFile, WithFormatter(f)), and in the init revision New() where neither a
\* writer nor the system log is asked for, Init(name, verbose, ...) otherwise
made(r, id, verbose, systemLog, logFile, f, sys) ==
    IF r # "init" THEN new(r, id, systemLog, logFile, f, sys)
    ELSE IF systemLog \/ logFile # NilW THEN InitLogger(id, verbose, systemLog, logFile, sys)
    ELSE NewLogger

(***************************************************************************)
(* The effects of a call, in the order they happen.                        *)
(***************************************************************************)
NoLine == [prefix |-> <<>>, flags |-> 0, text |-> <<>>]

Ev(ev, w, line, val) == [ev |-> ev, w |-> w, line |-> line, val |-> val]

Wrote(tr) == \E i \in DOMAIN tr : tr[i].ev = "write"

Panicked(tr) == \E i \in DOMAIN tr : tr[i].ev = "panic"

\* io.MultiWriter(ws...).Write: the writers in order, up to the first whose
\* Write returns an error; the Write method of a nil *syslog.Writer
\* dereferences the pointer, and so does Write on a nil io.Writer
RECURSIVE MultiWriter(_, _)
MultiWriter(ws, line) ==
    IF ws = <<>> THEN <<>>
    ELSE IF Head(ws).nilptr \/ Head(ws) = NilW
         THEN <<Ev("panic", Head(ws), NoLine, <<"nil pointer dereference">>)>>
         ELSE IF Head(ws) = ErrWriter
              THEN <<Ev("error", Head(ws), line, <<"write error">>)>>
              ELSE <<Ev("write", Head(ws), line, <<>>)>> \o MultiWriter(Tail(ws), line)

\* log.Logger.Output: one line, behind the channel's header and prefix
logOutput(ch, s) == MultiWriter(ch.w, [prefix |-> ch.prefix, flags |-> ch.flags, text |-> s])

clearNot(L) == L

\* logger.clear
clear(L) == [L EXCEPT !.fields = NoFields]

\* logger.With
With(r, L, fields) == [L EXCEPT !.fields = IF Bare(r) THEN fields ELSE Add(@, fields)]

bindNothing(L) == L

bindUnder(L) == IF L.ctx.has THEN [L EXCEPT !.fields = Add(L.ctx.f, @)] ELSE L

\* logger.bindContextFields (panic revision)
bindContextFields(L) == IF L.ctx.has THEN With("panic", L, L.ctx.f) ELSE L

\* logger.output, with its deferred clear: the effects and the logger after
output(r, L, s, txt) ==
    [tr |-> IF gate(r, L.level, Level(r)[s])
            THEN logOutput(L.log[s], IF Bare(r) THEN formatFields(L.fields) \o txt ELSE txt)
            ELSE <<>>,
     l |-> clear(L)]

\* c.Close() of a closer in bad returns an error
closeErr(c, bad) == IF c \in bad THEN <<"err">> ELSE <<>>

RECURSIVE closeUntilError(_, _)
closeUntilError(cs, bad) ==
    IF cs = <<>> THEN <<>>
    ELSE <<Ev("close", Head(cs), NoLine, closeErr(Head(cs), bad))>>
         \o (IF Head(cs) \in bad
             THEN <<Ev("report", Stderr, NoLine, <<"Failed to close log", Head(cs).dst>>)>>
             ELSE closeUntilError(Tail(cs), bad))

\* the loop of logger.Close: c.Close() for each closer, and for one that
\* returns an error fmt.Fprintf(os.Stderr, "Failed to close log %v: %v\n", c, err)
RECURSIVE closeAll(_, _)
closeAll(cs, bad) ==
    IF cs = <<>> THEN <<>>
    ELSE <<Ev("close", Head(cs), NoLine, closeErr(Head(cs), bad))>>
         \o (IF Head(cs) \in bad
             THEN <<Ev("report", Stderr, NoLine, <<"Failed to close log", Head(cs).dst>>)>>
             ELSE <<>>)
         \o closeAll(Tail(cs), bad)

\* logger.Close, where the closers in bad fail to close
Close(L, bad) == IF ~L.initialized THEN <<>> ELSE closeAll(L.closers, bad)

\* the closers whose Close returns an error, in one call of logger.Close:
\* none, or one of them
CloseFailures(L) == {{}} \cup {{L.closers[i]} : i \in DOMAIN L.closers}

\* the txt argument an emit method hands to output
Rendered(r, L, s, msg) ==
    IF Bare(r) THEN {msg} ELSE Output(L.formatter, L.flags, s, L.fields, msg)

\* fmt.Sprint of one string argument
Sprint(v) == v

\* fmt.Sprintf of a format with verbs %s and %d, with one argument (v is its
\* text)
RECURSIVE Sprintf(_, _)
Sprintf(format, v) ==
    IF format = <<>> THEN <<>>
    ELSE (IF Head(format) \in {"%s", "%d"} THEN v ELSE <<Head(format)>>)
         \o Sprintf(Tail(format), v)

\* the tail of Fatal and Fatalf: output, Close, os.Exit(1)
fatalExitIfWrote(out, cl) == IF Wrote(out) THEN out \o cl \o <<Ev("exit", NilW, NoLine, <<"1">>)>> ELSE out \o cl

fatalExitFirst(out, cl) == <<Ev("exit", NilW, NoLine, <<"1">>)>> \o out \o cl

fatalSteps(out, cl) == out \o cl \o <<Ev("exit", NilW, NoLine, <<"1">>)>>

panicCloseFirst(out, cl, msg) == cl \o out \o <<Ev("panic", NilW, NoLine, msg)>>

\* the tail of Panic and Panicf: output, Close, panic(msg)
panicSteps(out, cl, msg) == out \o cl \o <<Ev("panic", NilW, NoLine, msg)>>

(***************************************************************************)
(* State and calls.                                                        *)
(***************************************************************************)
Call(op, lg, sev, pre, arg, msg, tr) ==
    [op |-> op, lg |-> lg, sev |-> sev, pre |-> pre, arg |-> arg, msg |-> msg, tr |-> tr,
     out |-> NilW, formatted |-> FALSE]

NoCall == Call("none", 0, "none", NoFields, NoFields, <<>>, <<>>)

\* how a call with effects tr ended: by returning, in os.Exit, or in a panic
End(tr) == IF tr # <<>> /\ tr[Len(tr)].ev \in {"exit", "panic"} THEN tr[Len(tr)].ev ELSE "return"

\* the process after a call with effects tr: os.Exit and a panic nobody
\* recovers end it
After(tr) ==
    IF patched THEN "run"
    ELSE CASE End(tr) = "exit" -> "exited"
           [] End(tr) = "panic" -> "panicked"
           [] OTHER -> "run"

\* the Close counts after the close events of tr
RECURSIVE Closed(_, _)
Closed(cl, tr) ==
    IF tr = <<>> THEN cl
    ELSE Closed(IF Head(tr).ev = "close" THEN [cl EXCEPT ![Head(tr).w] = @ + 1] ELSE cl, Tail(tr))

\* the bound leaves room for the effects of tr
Fits(tr) == \A h \in Handles : Closed(closed, tr)[h] <= MaxClose

\* no goroutine besides the caller's
NoRoutines ==
    [pc |-> <<>>, arg |-> <<>>, rd |-> <<>>, n |-> <<>>, keys |-> <<>>, txt |-> <<>>,
     k |-> <<>>, id |-> <<>>, chk |-> <<>>, lock |-> 0, hist |-> <<>>]

\* the state of a process before its package initialisation
Init ==
    /\ rev \in Revs
    /\ proc = "load"
    /\ patched \in BOOLEAN
    /\ loggers = <<>>
    /\ defaultLogger = 0
    /\ closed = [h \in Handles |-> 0]
    /\ installs = 0
    /\ last = NoCall
    /\ routines = NoRoutines
    /\ inner = InnerKeys

\* the state after package initialisation and one constructor call of the
\* caller: New over a buffer with formatter f, or NewSyslogLogger; in the
\* init revision after New() and Init(name, verbose, false, buf1)
Built(f, systemLog, verbose) ==
    /\ proc = "run"
    /\ patched \in BOOLEAN
    /\ loggers = <<initLogger(rev),
                   made(rev, 2, FALSE, FALSE, NilW, "std", "ok").l,
                   made(rev, 3, verbose, systemLog,
                        IF systemLog \/ rev = "mask" THEN NilW ELSE W("buf1"), f, "ok").l>>
    /\ last = [Call(IF systemLog THEN "NewSyslogLogger" ELSE IF rev = "init" THEN "Init" ELSE "New",
                     3, "none", NoFields, NoFields, <<>>, <<>>)
                EXCEPT !.out = IF systemLog THEN NilW ELSE W("buf1")]
    /\ defaultLogger = 2
    /\ closed = [h \in Handles |-> 0]
    /\ installs = 1
    /\ routines = NoRoutines
    /\ inner = InnerKeys

\* the values of verbose the caller passes to Init; the other revisions
\* have no such argument
Verbosity(r) == IF r = "init" THEN BOOLEAN ELSE {FALSE}

InitBuilt ==
    /\ rev \in Revs
    /\ \/ \E f \in Formatters(rev), v \in Verbosity(rev) : Built(f, FALSE, v)
       \/ rev # "init" /\ Built("std", TRUE, FALSE)

InitFields ==
    /\ rev \in Revs
    /\ \E f \in Formatters(rev) \ {"color"}, v \in Verbosity(rev) : Built(f, FALSE, v)

\* the state after package initialisation and a call of initialize(): the
\* default logger is the fallback again (the reset of TestLoggingBeforeInit)
InitFallback ==
    /\ rev \in Revs
    /\ proc = "run"
    /\ patched \in BOOLEAN
    /\ loggers = <<initLogger(rev), made(rev, 2, FALSE, FALSE, NilW, "std", "ok").l,
                   initLogger(rev)>>
    /\ defaultLogger = 3
    /\ closed = [h \in Handles |-> 0]
    /\ installs = 0
    /\ last = Call("initialize", 3, "none", NoFields, NoFields, <<>>, <<>>)
    /\ routines = NoRoutines
    /\ inner = InnerKeys

\* the state after package initialisation and New(out) of the caller, where
\* Write of out returns an error
InitFail ==
    /\ rev \in Revs
    /\ proc = "run"
    /\ patched \in BOOLEAN
    /\ \E v \in Verbosity(rev) :
         loggers = <<initLogger(rev),
                     made(rev, 2, FALSE, FALSE, NilW, "std", "ok").l,
                     made(rev, 3, v, FALSE, IF rev = "mask" THEN NilW ELSE ErrWriter,
                          "std", "ok").l>>
    /\ last = [Call(IF rev = "init" THEN "Init" ELSE "New", 3, "none", NoFields, NoFields, <<>>, <<>>)
                EXCEPT !.out = ErrWriter]
    /\ defaultLogger = 2
    /\ closed = [h \in Handles |-> 0]
    /\ installs = 1
    /\ routines = NoRoutines
    /\ inner = InnerKeys

\* the loggers a caller can name: those its constructor calls returned, and
\* the default one behind the package-level functions.  Logger 2 is the one
\* init() builds; in the init revision, whose init() builds none, it is the
\* caller's first, which the calls here reach as the default only.
Held == {i \in 3 .. Len(loggers) : loggers[i].initialized}

Targets == Held \cup {defaultLogger}

(***************************************************************************)
(* Package initialisation and construction.                                *)
(***************************************************************************)
\* initialize()
initialize ==
    /\ proc = "run"
    /\ Len(loggers) < MaxLoggers
    /\ loggers' = Append(loggers, initLogger(rev))
    /\ defaultLogger' = Len(loggers) + 1
    /\ installs' = 0
    /\ last' = Call("initialize", Len(loggers) + 1, "none", NoFields, NoFields, <<>>, <<>>)
    /\ UNCHANGED <<inner, routines, rev, proc, patched, closed>>

installAlways(dl, id) == id

\* the end of new: the default logger is replaced while it is uninitialized
install(dl, id) == IF ~loggers[dl].initialized THEN id ELSE dl

\* a constructor call op that builds n, a logger and whether setup failed:
\* new(name, systemLog, logFile, WithFormatter(f)), or Init and New() of the
\* init revision, from l.initialized = true on
construct(op, out, n) ==
    LET id == Len(loggers) + 1
        msg == <<"syslog", "error">>
    IN  /\ proc = "run"
        /\ Len(loggers) < MaxLoggers
        /\ \E txt \in Rendered(rev, n.l, "error", msg) :
             LET o == IF n.err THEN output(rev, n.l, "error", txt) ELSE [tr |-> <<>>, l |-> n.l]
             IN  /\ proc' = After(o.tr)
                 /\ IF Panicked(o.tr)
                    THEN UNCHANGED <<loggers, defaultLogger, installs>>
                    ELSE /\ loggers' = Append(loggers, o.l)
                         /\ defaultLogger' = install(defaultLogger, id)
                         /\ installs' = IF defaultLogger' # defaultLogger
                                        THEN installs + 1 ELSE installs
                 /\ last' = [Call(op, id, "none", NoFields, NoFields,
                                   IF n.err THEN msg ELSE <<>>, o.tr)
                               EXCEPT !.out = out]
        /\ UNCHANGED <<inner, routines, rev, patched, closed>>

initFallbackOnly ==
    /\ proc = "load"
    /\ loggers' = <<initLogger(rev)>>
    /\ defaultLogger' = 1
    /\ installs' = 0
    /\ proc' = "run"
    /\ last' = Call("init", 1, "none", NoFields, NoFields, <<>>, <<>>)
    /\ UNCHANGED <<inner, routines, rev, patched, closed>>

\* func init(): initialize(), then NewStdLogger(); in the init revision
\* initialize() alone
init ==
    /\ proc = "load"
    /\ loggers' = IF rev = "init" THEN <<initLogger(rev)>>
                  ELSE <<initLogger(rev), new(rev, 2, FALSE, NilW, "std", "ok").l>>
    /\ defaultLogger' = Len(loggers')
    /\ installs' = Len(loggers') - 1
    /\ proc' = "run"
    /\ last' = Call("init", Len(loggers'), "none", NoFields, NoFields, <<>>, <<>>)
    /\ UNCHANGED <<inner, routines, rev, patched, closed>>

NewStdLogger ==
    /\ rev # "init"
    /\ construct("NewStdLogger", NilW, new(rev, Len(loggers) + 1, FALSE, NilW, "std", "ok"))

NewJsonLogger ==
    /\ ~Bare(rev)
    /\ construct("NewJsonLogger", NilW, new(rev, Len(loggers) + 1, FALSE, NilW, "json", "ok"))

NewColorLogger ==
    /\ rev = "panic"
    /\ construct("NewColorLogger", NilW, new(rev, Len(loggers) + 1, FALSE, NilW, "color", "ok"))

\* New(out), without options: the mask revision does not pass out on; New()
\* of the init revision takes no writer
New ==
    IF rev = "init" THEN construct("New", NilW, NewLogger)
    ELSE \E out \in Buffers :
           construct("New", out, new(rev, Len(loggers) + 1, FALSE,
                                      IF rev = "mask" THEN NilW ELSE out, "std", "ok"))

\* NewSyslogLogger(name): new(name, true, nil), with the setup of
\* logger_syslog.go, of which the mask and ordered revisions take the Debug,
\* Info, Warning and Error handles; the init revision has Init for it
NewSyslogLogger ==
    /\ rev # "init"
    /\ \E sys \in {"ok", "err"} :
         construct("NewSyslogLogger", NilW, new(rev, Len(loggers) + 1, TRUE, NilW, "std", sys))

\* the arguments Init is called with: a buffer with and without verbose, no
\* writer at all, and the system log whose setup succeeds or fails
InitArgs(verbose, systemLog, logFile, sys) ==
    [verbose |-> verbose, systemLog |-> systemLog, logFile |-> logFile, sys |-> sys]

InitInputs ==
    {InitArgs(FALSE, FALSE, W("buf1"), "ok"),
     InitArgs(TRUE, FALSE, W("buf1"), "ok"),
     InitArgs(FALSE, FALSE, NilW, "ok"),
     InitArgs(TRUE, TRUE, W("buf1"), "ok"),
     InitArgs(FALSE, TRUE, W("buf1"), "err")}

\* Init(name, verbose, systemLog, logFile) of the init revision
LogInit ==
    /\ rev = "init"
    /\ \E a \in InitInputs :
         construct("Init", a.logFile,
                   InitLogger(Len(loggers) + 1, a.verbose, a.systemLog, a.logFile, a.sys))

(***************************************************************************)
(* Configuration.  T is the set of loggers the caller calls it on.         *)
(***************************************************************************)
FlagInputs == {Ldisable, LstdFlags, Lshortfile}

\* logger.SetLevel: l.level = lvl, and in the init revision
\* l.output(sInfo, 0, fmt.Sprintf("Info verbosity set to %d", lvl))
setLevel(r, L, lvl) ==
    LET S == [L EXCEPT !.level = lvl]
    IN  IF r = "init"
        THEN output(r, S, "info", Sprintf(<<"Info verbosity set to ", "%d">>, <<ToString(lvl)>>))
        ELSE [tr |-> <<>>, l |-> S]

\* SetLevel(lvl), of a logger or of the package
SetLevel(T) ==
    /\ proc = "run"
    /\ \E t \in T, lvl \in LevelInputs(rev) :
         LET o == setLevel(rev, loggers[t], lvl)
         IN  /\ loggers' = [loggers EXCEPT ![t] = o.l]
             /\ proc' = After(o.tr)
             /\ last' = Call("SetLevel", t, "none", loggers[t].fields, NoFields, <<>>, o.tr)
    /\ UNCHANGED <<inner, routines, rev, patched, defaultLogger, closed, installs>>

setFlagsAll(r, L, flag) ==
    [L EXCEPT !.log = [s \in DOMAIN @ |-> [@[s] EXCEPT !.flags = flag]],
              !.flags = IF Bare(r) THEN @ ELSE flag]

\* logger.SetFlags
setFlags(r, L, flag) ==
    [L EXCEPT !.log = IF Bare(r) \/ ~HasFlags(L.formatter)
                      THEN [s \in DOMAIN @ |-> [@[s] EXCEPT !.flags = flag]]
                      ELSE @,
              !.flags = IF Bare(r) THEN @ ELSE flag]

SetFlags(T) ==
    /\ proc = "run"
    /\ \E t \in T, flag \in FlagInputs :
         /\ loggers' = [loggers EXCEPT ![t] = setFlags(rev, @, flag)]
         /\ last' = Call("SetFlags", t, "none", loggers[t].fields, NoFields, <<>>, <<>>)
    /\ UNCHANGED <<inner, routines, rev, proc, patched, defaultLogger, closed, installs>>

\* With(fields), of a logger or of the package
WithFields(T) ==
    /\ proc = "run"
    /\ \E t \in T, F \in FieldSets :
         /\ loggers' = [loggers EXCEPT ![t] = With(rev, @, F)]
         /\ last' = Call("With", t, "none", loggers[t].fields, F, <<>>, <<>>)
    /\ UNCHANGED <<inner, routines, rev, proc, patched, defaultLogger, closed, installs>>

\* With(LogFields{"a": m}), where m is the map the caller owns
WithNested(T) ==
    /\ proc = "run"
    /\ \E t \in T :
         LET F == [k \in {"a"} |-> MapVal]
         IN  /\ loggers' = [loggers EXCEPT ![t] = With(rev, @, F)]
             /\ last' = Call("With", t, "none", loggers[t].fields, F, <<>>, <<>>)
    /\ UNCHANGED <<inner, routines, rev, proc, patched, defaultLogger, closed, installs>>

\* WithContextFields(ctx, fields): l.ctx = context.WithValue(ctx, key, fields)
WithContextFields(T) ==
    /\ proc = "run"
    /\ rev = "panic"
    /\ \E t \in T, F \in FieldSets :
         /\ loggers' = [loggers EXCEPT ![t].ctx = [has |-> TRUE, ptr |-> TRUE, f |-> F]]
         /\ last' = Call("WithContextFields", t, "none", loggers[t].fields, F, <<>>, <<>>)
    /\ UNCHANGED <<inner, routines, rev, proc, patched, defaultLogger, closed, installs>>

(***************************************************************************)
(* Emitting.                                                               *)
(***************************************************************************)
Words == {<<"m">>}

\* the context fields are bound first where the revision has them
bound(r, L) == IF r = "panic" THEN bindContextFields(L) ELSE L

\* whether an emit method invokes the formatter: the ordered revisions pass
\* l.formatter.Output(...) as the argument of output, the mask revision calls
\* l.formatFields() inside the gate
Formats(r, L, s) == r # "mask" \/ gate(r, L.level, Level(r)[s])

\* the body shared by the emit methods below Fatal: Debug ... Errorf
emit(T, op, s, msg) ==
    /\ proc = "run"
    /\ s \in Sevs(rev)
    /\ \E t \in T :
         LET L == bound(rev, loggers[t])
         IN  \E txt \in Rendered(rev, L, s, msg) :
               LET o == output(rev, L, s, txt)
               IN  /\ loggers' = [loggers EXCEPT ![t] = o.l]
                   /\ proc' = After(o.tr)
                   /\ inner' = IF Formats(rev, L, s) THEN Marshalled(L.formatter, L.fields)
                                ELSE inner
                   /\ last' = [Call(op, t, s, loggers[t].fields, NoFields, msg, o.tr)
                                 EXCEPT !.formatted = Formats(rev, L, s)]
    /\ UNCHANGED <<routines, rev, patched, defaultLogger, closed, installs>>

Debug(T) == \E v \in Words : emit(T, "Debug", "debug", Sprint(v))
Debugf(T) == \E v \in Words : emit(T, "Debugf", "debug", Sprintf(<<"%s", "f">>, v))
Info(T) == \E v \in Words : emit(T, "Info", "info", Sprint(v))
Infof(T) == \E v \in Words : emit(T, "Infof", "info", Sprintf(<<"%s", "f">>, v))
Warning(T) == \E v \in Words : emit(T, "Warning", "warning", Sprint(v))
Warningf(T) == \E v \in Words : emit(T, "Warningf", "warning", Sprintf(<<"%s", "f">>, v))
Error(T) == \E v \in Words : emit(T, "Error", "error", Sprint(v))
Errorf(T) == \E v \in Words : emit(T, "Errorf", "error", Sprintf(<<"%s", "f">>, v))

\* the body shared by Fatal, Fatalf, Panic and Panicf
terminal(T, op, s, msg) ==
    /\ proc = "run"
    /\ s \in Sevs(rev)
    /\ \E t \in T :
         LET L == bound(rev, loggers[t])
         IN  \E txt \in Rendered(rev, L, s, msg), bad \in CloseFailures(L) :
               LET o == output(rev, L, s, txt)
                   tr == IF Panicked(o.tr) THEN o.tr     \* the write panicked
                         ELSE IF s = "fatal" THEN fatalSteps(o.tr, Close(o.l, bad))
                         ELSE panicSteps(o.tr, Close(o.l, bad), msg)
               IN  /\ Fits(tr)
                   /\ closed' = Closed(closed, tr)
                   /\ loggers' = [loggers EXCEPT ![t] = o.l]
                   /\ proc' = After(tr)
                   /\ inner' = IF Formats(rev, L, s) THEN Marshalled(L.formatter, L.fields)
                                ELSE inner
                   /\ last' = [Call(op, t, s, loggers[t].fields, NoFields, msg, tr)
                                 EXCEPT !.formatted = Formats(rev, L, s)]
    /\ UNCHANGED <<routines, rev, patched, defaultLogger, installs>>

Fatal(T) == \E v \in Words : terminal(T, "Fatal", "fatal", Sprint(v))
Fatalf(T) == \E v \in Words : terminal(T, "Fatalf", "fatal", Sprintf(<<"%s", "f">>, v))
Panic(T) == rev = "panic" /\ \E v \in Words : terminal(T, "Panic", "panic", Sprint(v))
Panicf(T) == rev = "panic" /\ \E v \in Words : terminal(T, "Panicf", "panic", Sprintf(<<"%s", "f">>, v))

\* Close(), of a logger or of the package
CloseLogger(T) ==
    /\ proc = "run"
    /\ \E t \in T :
         \E bad \in CloseFailures(loggers[t]) :
           LET tr == Close(loggers[t], bad)
           IN  /\ Fits(tr)
               /\ closed' = Closed(closed, tr)
               /\ last' = Call("Close", t, "none", loggers[t].fields, NoFields, <<>>, tr)
    /\ UNCHANGED <<inner, routines, rev, proc, patched, loggers, defaultLogger, installs>>

(***************************************************************************)
(* Specifications.                                                         *)
(*   Spec        the process from its load: package initialisation, the    *)
(*               constructors, initialize() and emits through every logger *)
(*   SpecGate    one logger a caller built: its threshold, every emit      *)
(*               method and Close                                          *)
(*   SpecFields  one logger a caller built: its one-shot and context       *)
(*               fields across emits                                       *)
(*   SpecFallback  the package-level functions on the fallback logger,     *)
(*               after initialize() and before any constructor call        *)
(*   SpecFail    one logger a caller built over a writer whose Write       *)
(*               returns an error                                          *)
(*   SpecConc    goroutines calling With and Info on one logger            *)
(***************************************************************************)
Next ==
    \/ init
    \/ initialize
    \/ LogInit
    \/ NewStdLogger
    \/ NewJsonLogger
    \/ NewColorLogger
    \/ New
    \/ NewSyslogLogger
    \/ Info(Targets)
    \/ Error(Targets)

Spec == Init /\ [][Next]_vars

NextGate ==
    \/ SetLevel(Held)
    \/ SetFlags(Held)
    \/ Debug(Held)
    \/ Debugf(Held)
    \/ Info(Held)
    \/ Infof(Held)
    \/ Warning(Held)
    \/ Warningf(Held)
    \/ Error(Held)
    \/ Errorf(Held)
    \/ Fatal(Held)
    \/ Fatalf(Held)
    \/ Panic(Held)
    \/ Panicf(Held)
    \/ CloseLogger(Held)

SpecGate == InitBuilt /\ [][NextGate]_vars

NextFields ==
    \/ SetLevel(Held)
    \/ WithFields(Held)
    \/ WithContextFields(Held)
    \/ Debug(Held)
    \/ Info(Held)
    \/ Errorf(Held)
    \/ Fatal(Held)
    \/ Panic(Held)

SpecFields == InitFields /\ [][NextFields]_vars

\* one logger a caller built, and fields whose value is a map of the caller
NextNested ==
    \/ SetLevel(Held)
    \/ WithNested(Held)
    \/ WithFields(Held)
    \/ Debug(Held)
    \/ Info(Held)
    \/ Errorf(Held)
    \/ Fatal(Held)

SpecNested == InitFields /\ [][NextNested]_vars

\* the package-level functions before any constructor call
NextFallback ==
    \/ SetLevel({defaultLogger})
    \/ Debug({defaultLogger})
    \/ Debugf({defaultLogger})
    \/ Info({defaultLogger})
    \/ Infof({defaultLogger})
    \/ Warning({defaultLogger})
    \/ Warningf({defaultLogger})
    \/ Error({defaultLogger})
    \/ Errorf({defaultLogger})
    \/ Fatal({defaultLogger})
    \/ Fatalf({defaultLogger})
    \/ CloseLogger({defaultLogger})

SpecFallback == InitFallback /\ [][NextFallback]_vars

\* a logger over a writer that fails: its threshold, its emits and Close
NextFail ==
    \/ SetLevel(Held)
    \/ Debug(Held)
    \/ Debugf(Held)
    \/ Info(Held)
    \/ Infof(Held)
    \/ Warning(Held)
    \/ Warningf(Held)
    \/ Error(Held)
    \/ Errorf(Held)
    \/ Fatal(Held)
    \/ Fatalf(Held)
    \/ CloseLogger(Held)

SpecFail == InitFail /\ [][NextFail]_vars

(***************************************************************************)
(* Concurrent callers.  Goroutines share the logger the caller built; each *)
(* runs l.With(F) and then l.Info(msg).  A step is what a goroutine does    *)
(* between two points where another one can run: each read and each store  *)
(* of l.fields that no lock protects (in With, in bindContextFields and in *)
(* formatFields), Lock, one Write of the fan-out per step, Unlock, and the *)
(* deferred clear.                                                         *)
(***************************************************************************)
MaxRoutines == 2    \* goroutines that call the logger

Goroutines == 1 .. MaxRoutines

\* the logger every goroutine calls
Shared == 3

\* what goroutine g passes: one field under key, and its own message
GoFields(key, g) == [k \in {key} |-> IntVal(g)]
GoMsg(g) == <<"m", ToString(g)>>

\* the goroutines before their first step: pcs[g] is the call g starts with,
\* keys[g] the key of the field it passes
Start(pcs, keys) ==
    [pc |-> pcs,
     arg |-> [g \in Goroutines |-> GoFields(keys[g], g)],
     rd |-> [g \in Goroutines |-> NoFields],
     n |-> [g \in Goroutines |-> 0],
     keys |-> [g \in Goroutines |-> <<>>],
     txt |-> [g \in Goroutines |-> <<>>],
     k |-> [g \in Goroutines |-> 0],
     id |-> [g \in Goroutines |-> 0],
     chk |-> [g \in Goroutines |-> FALSE],
     lock |-> 0,
     hist |-> <<>>]

\* the state after package initialisation and New(buf1) of the caller
BuiltShared ==
    /\ rev \in Revs
    /\ proc = "run"
    /\ patched = FALSE
    /\ loggers = <<initLogger(rev),
                   made(rev, 2, FALSE, FALSE, NilW, "std", "ok").l,
                   made(rev, 3, FALSE, FALSE, IF rev = "mask" THEN NilW ELSE W("buf1"),
                        "std", "ok").l>>
    /\ defaultLogger = 2
    /\ closed = [h \in Handles |-> 0]
    /\ installs = 1
    /\ last = NoCall
    /\ inner = InnerKeys

\* the calls a goroutine of SpecConc starts with: With(F).Info, or
\* WithContextFields before it
Chains(r) == {"With"} \cup (IF r = "panic" THEN {"WithContextFields"} ELSE {})

\* the first goroutine passes key "a", the others either key: the same key as
\* the first, or another one
InitConc ==
    /\ BuiltShared
    /\ \E keys \in {k \in [Goroutines -> Keys] : k[1] = "a"}, pcs \in [Goroutines -> Chains(rev)] :
         routines = Start(pcs, keys)

\* the calls a goroutine starts with: With(F).Info, or WithContextFields
\* before it, or Close, or a constructor
Programs(r) == Chains(r) \cup {"Close", "New"}

InitLock ==
    /\ BuiltShared
    /\ \E pcs \in [Goroutines -> Programs(rev)] :
         routines = Start(pcs, [g \in Goroutines |-> "a"])

\* the state after package initialisation and initialize(): every goroutine
\* calls a constructor
InitInstall ==
    /\ rev \in Revs
    /\ proc = "run"
    /\ patched = FALSE
    /\ loggers = <<initLogger(rev), made(rev, 2, FALSE, FALSE, NilW, "std", "ok").l,
                   initLogger(rev)>>
    /\ defaultLogger = 3
    /\ closed = [h \in Handles |-> 0]
    /\ installs = 0
    /\ last = Call("initialize", 3, "none", NoFields, NoFields, <<>>, <<>>)
    /\ routines = Start([g \in Goroutines |-> "New"], [g \in Goroutines |-> "a"])
    /\ inner = InnerKeys

canLockAlways(lk) == TRUE

\* logLock.Lock() returns: nobody holds the lock
canLock(lk) == lk = 0

WithLocksAlways(r) == TRUE

\* logger.With takes logLock: in the ordered revision only
WithLocks(r) == r = "ordered"

\* WithContextFields(ctx, fields): l.ctx = context.WithValue(...), without a
\* lock.  l.ctx is an interface, two words: the store writes one of them
\* first, the type word or the data word, and a reader in between sees both
GoCtx(g) ==
    /\ proc = "run"
    /\ routines.pc[g] = "WithContextFields"
    /\ \/ /\ loggers' = [loggers EXCEPT ![Shared].ctx.has = TRUE]
          /\ routines' = [routines EXCEPT !.pc[g] = "ctxData"]
       \/ /\ loggers' = [loggers EXCEPT ![Shared].ctx.ptr = TRUE,
                                         ![Shared].ctx.f = routines.arg[g]]
          /\ routines' = [routines EXCEPT !.pc[g] = "ctxType"]
    /\ UNCHANGED <<inner, rev, proc, patched, defaultLogger, closed, installs, last>>

\* WithContextFields: the store of the other word of l.ctx
GoCtxWord(g) ==
    /\ proc = "run"
    /\ routines.pc[g] \in {"ctxData", "ctxType"}
    /\ loggers' = IF routines.pc[g] = "ctxType"
                  THEN [loggers EXCEPT ![Shared].ctx.has = TRUE]
                  ELSE [loggers EXCEPT ![Shared].ctx.ptr = TRUE,
                                       ![Shared].ctx.f = routines.arg[g]]
    /\ routines' = [routines EXCEPT !.pc[g] = "With"]
    /\ UNCHANGED <<inner, rev, proc, patched, defaultLogger, closed, installs, last>>

\* logger.With where nothing can run between its read and its store of
\* l.fields: under logLock in the ordered revision; a single store,
\* l.fields = fields, without a lock in the init and mask revisions
GoWith(g) ==
    /\ proc = "run"
    /\ rev # "panic"
    /\ routines.pc[g] = "With"
    /\ WithLocks(rev) => canLock(routines.lock)
    /\ loggers' = [loggers EXCEPT ![Shared] = With(rev, @, routines.arg[g])]
    /\ routines' = [routines EXCEPT !.pc[g] = "format"]
    /\ UNCHANGED <<inner, rev, proc, patched, defaultLogger, closed, installs, last>>

\* logger.With of the panic revision, l.fields = l.fields.Add(fields) without
\* a lock: first l.fields is read and Add evaluated
GoWithRead(g) ==
    /\ proc = "run"
    /\ rev = "panic"
    /\ routines.pc[g] = "With"
    /\ WithLocks(rev) => canLock(routines.lock)
    /\ routines' = [routines EXCEPT !.rd[g] = With(rev, loggers[Shared], routines.arg[g]).fields,
                                    !.pc[g] = "store"]
    /\ UNCHANGED <<inner, rev, proc, patched, loggers, defaultLogger, closed, installs, last>>

\* logger.With of the panic revision: the result of Add is stored in l.fields
GoWithStore(g) ==
    /\ proc = "run"
    /\ routines.pc[g] = "store"
    /\ loggers' = [loggers EXCEPT ![Shared].fields = routines.rd[g]]
    /\ routines' = [routines EXCEPT !.pc[g] = "bind"]
    /\ UNCHANGED <<inner, rev, proc, patched, defaultLogger, closed, installs, last>>

\* logger.Info, first statement of the panic revision: l.bindContextFields(),
\* up to its logLock.Lock()
GoBindLock(g) ==
    /\ proc = "run"
    /\ routines.pc[g] = "bind"
    /\ canLock(routines.lock)
    /\ routines' = [routines EXCEPT !.lock = g, !.pc[g] = "bound"]
    /\ UNCHANGED <<inner, rev, proc, patched, loggers, defaultLogger, closed, installs, last>>

\* bindContextFields under the lock: if l.ctx != nil, a test of the type
\* word of l.ctx; where it is nil, the deferred Unlock
GoBindTest(g) ==
    /\ proc = "run"
    /\ routines.pc[g] = "bound"
    /\ routines' = IF loggers[Shared].ctx.has
                   THEN [routines EXCEPT !.pc[g] = "value"]
                   ELSE [routines EXCEPT !.lock = 0, !.pc[g] = "format"]
    /\ UNCHANGED <<inner, rev, proc, patched, loggers, defaultLogger, closed, installs, last>>

\* bindContextFields: v, ok := l.ctx.Value(keyContextFields).(LogFields), a
\* second read of l.ctx.  Where the data word is still nil, Value
\* dereferences a nil *valueCtx and panics: the deferred Unlock runs and the
\* goroutine unwinds
GoBindValue(g) ==
    /\ proc = "run"
    /\ routines.pc[g] = "value"
    /\ routines' = IF loggers[Shared].ctx.ptr
                   THEN [routines EXCEPT !.rd[g] = loggers[Shared].ctx.f, !.pc[g] = "boundWith"]
                   ELSE [routines EXCEPT !.lock = 0, !.pc[g] = "panicked"]
    /\ UNCHANGED <<inner, rev, proc, patched, loggers, defaultLogger, closed, installs, last>>

\* bindContextFields: l.With(v) reads l.fields and evaluates Add
GoBindWith(g) ==
    /\ proc = "run"
    /\ routines.pc[g] = "boundWith"
    /\ WithLocks(rev) => canLock(routines.lock)
    /\ routines' = [routines EXCEPT
                      !.rd[g] = With(rev, loggers[Shared], routines.rd[g]).fields,
                      !.pc[g] = "boundStore"]
    /\ UNCHANGED <<inner, rev, proc, patched, loggers, defaultLogger, closed, installs, last>>

\* bindContextFields: l.With(v) stores the result of Add in l.fields, then
\* the deferred Unlock
GoBindStore(g) ==
    /\ proc = "run"
    /\ routines.pc[g] = "boundStore"
    /\ loggers' = [loggers EXCEPT ![Shared].fields = routines.rd[g]]
    /\ routines' = [routines EXCEPT !.lock = 0, !.pc[g] = "format"]
    /\ UNCHANGED <<inner, rev, proc, patched, defaultLogger, closed, installs, last>>

\* logger.Info up to Lock in the ordered and panic revisions: l.fields is read
\* once, as the argument of l.formatter.Output, without the lock, and the
\* gate is tested
GoFormat(g) ==
    /\ proc = "run"
    /\ ~Bare(rev)
    /\ routines.pc[g] = "format"
    /\ LET L == loggers[Shared]
       IN  \E txt \in Rendered(rev, L, "info", GoMsg(g)) :
             routines' = [routines EXCEPT
                            !.txt[g] = txt,
                            !.pc[g] = IF gate(rev, L.level, Level(rev).info) THEN "lock" ELSE "clear"]
    /\ UNCHANGED <<inner, rev, proc, patched, loggers, defaultLogger, closed, installs, last>>

\* output of the init and mask revisions builds the text in formatFields,
\* which reads l.fields three times without the lock.  First the gate and
\* keys := make([]string, len(l.fields))
GoFormatLen(g) ==
    /\ proc = "run"
    /\ Bare(rev)
    /\ routines.pc[g] = "format"
    /\ LET L == loggers[Shared]
       IN  routines' = [routines EXCEPT
                          !.n[g] = Cardinality(DOMAIN L.fields),
                          !.txt[g] = <<>>,
                          !.pc[g] = IF gate(rev, L.level, Level(rev).info) THEN "range" ELSE "clear"]
    /\ UNCHANGED <<inner, rev, proc, patched, loggers, defaultLogger, closed, installs, last>>

\* the keys formatFields holds after its range loop and sort.Strings, over a
\* map with the keys D and a slice of length n: the slice keeps "" for every
\* element the loop did not set
rangeKeys(D, n) == [i \in 1 .. (n - Cardinality(D)) |-> ""] \o sortStrings(D)

\* formatFields: for field := range l.fields { keys[i] = field; i++ }, then
\* sort.Strings(keys).  A map that has more keys than the slice has elements
\* makes keys[i] panic (index out of range)
GoFormatRange(g) ==
    /\ proc = "run"
    /\ routines.pc[g] = "range"
    /\ LET D == DOMAIN loggers[Shared].fields
           ks == rangeKeys(D, routines.n[g])
       IN  routines' =
             IF Cardinality(D) > routines.n[g]
             THEN [routines EXCEPT !.pc[g] = "unwind"]
             ELSE [routines EXCEPT
                     !.keys[g] = ks,
                     !.txt[g] = IF ks = <<>> THEN GoMsg(g) ELSE <<>>,
                     !.pc[g] = IF ks = <<>> THEN "lock" ELSE "lookup"]
    /\ UNCHANGED <<inner, rev, proc, patched, loggers, defaultLogger, closed, installs, last>>

\* l.fields[key] as the map is now: the value, or nil for a key it lacks
lookup(fields, key) == IF key \in DOMAIN fields THEN fields[key] ELSE NilVal

\* formatFields: value := l.fields[key] and fieldsStr += key + "=" +
\* valueStr + " ", one key per step; after the last key the message follows
GoFormatLookup(g) ==
    /\ proc = "run"
    /\ routines.pc[g] = "lookup"
    /\ LET key == Head(routines.keys[g])
           str == routines.txt[g] \o <<key, "=">>
                  \o valueStr(lookup(loggers[Shared].fields, key)) \o <<" ">>
           rest == Tail(routines.keys[g])
       IN  routines' = [routines EXCEPT
                          !.keys[g] = rest,
                          !.txt[g] = IF rest = <<>> THEN str \o GoMsg(g) ELSE str,
                          !.pc[g] = IF rest = <<>> THEN "lock" ELSE "lookup"]
    /\ UNCHANGED <<inner, rev, proc, patched, loggers, defaultLogger, closed, installs, last>>

\* logger.output: logLock.Lock()
GoLock(g) ==
    /\ proc = "run"
    /\ routines.pc[g] = "lock"
    /\ canLock(routines.lock)
    /\ routines' = [routines EXCEPT !.lock = g, !.pc[g] = "write", !.k[g] = 1]
    /\ UNCHANGED <<inner, rev, proc, patched, loggers, defaultLogger, closed, installs, last>>

\* logger.output: l.infoLog.Output, one writer of the fan-out per step
GoWrite(g) ==
    /\ proc = "run"
    /\ routines.pc[g] = "write"
    /\ LET ch == loggers[Shared].log["info"]
           n == routines.k[g]
       IN  routines' = [routines EXCEPT
                          !.hist = Append(@, [g |-> g, w |-> ch.w[n], prefix |-> ch.prefix,
                                              text |-> routines.txt[g]]),
                          !.k[g] = n + 1,
                          !.pc[g] = IF n = Len(ch.w) THEN "unlock" ELSE "write"]
    /\ UNCHANGED <<inner, rev, proc, patched, loggers, defaultLogger, closed, installs, last>>

\* logger.output returns: the deferred logLock.Unlock()
GoUnlock(g) ==
    /\ proc = "run"
    /\ routines.pc[g] = "unlock"
    /\ routines' = [routines EXCEPT !.lock = 0, !.pc[g] = "clear"]
    /\ UNCHANGED <<inner, rev, proc, patched, loggers, defaultLogger, closed, installs, last>>

\* logger.output returns, or unwinds from the panic of formatFields: the
\* deferred l.clear(), under logLock (the init and mask revisions take no
\* lock)
GoClear(g) ==
    /\ proc = "run"
    /\ routines.pc[g] \in {"clear", "unwind"}
    /\ ~Bare(rev) => canLock(routines.lock)
    /\ loggers' = [loggers EXCEPT ![Shared] = clear(@)]
    /\ routines' = [routines EXCEPT !.pc[g] = IF @ = "unwind" THEN "panicked" ELSE "done"]
    /\ UNCHANGED <<inner, rev, proc, patched, defaultLogger, closed, installs, last>>

\* a panic that no deferred function of goroutine g recovered ends the
\* process
GoCrash(g) ==
    /\ proc = "run"
    /\ routines.pc[g] = "panicked"
    /\ proc' = "panicked"
    /\ UNCHANGED <<inner, rev, patched, loggers, defaultLogger, closed, installs, last, routines>>

\* logger.Close: the closers are closed under logLock
GoClose(g) ==
    /\ proc = "run"
    /\ routines.pc[g] = "Close"
    /\ canLock(routines.lock)
    /\ Fits(Close(loggers[Shared], {}))
    /\ closed' = Closed(closed, Close(loggers[Shared], {}))
    /\ routines' = [routines EXCEPT !.pc[g] = "done"]
    /\ UNCHANGED <<inner, rev, proc, patched, loggers, defaultLogger, installs, last>>

\* new, up to l.initialized = true: the logger is built, no lock is held
GoNew(g) ==
    /\ proc = "run"
    /\ routines.pc[g] = "New"
    /\ Len(loggers) < MaxLoggers
    /\ \E f \in Formatters(rev) :
         loggers' = Append(loggers, made(rev, Len(loggers) + 1, FALSE, FALSE, NilW, f, "ok").l)
    /\ routines' = [routines EXCEPT !.id[g] = Len(loggers) + 1, !.pc[g] = "newLock"]
    /\ UNCHANGED <<inner, rev, proc, patched, defaultLogger, closed, installs, last>>

\* new: logLock.Lock()
GoNewLock(g) ==
    /\ proc = "run"
    /\ routines.pc[g] = "newLock"
    /\ canLock(routines.lock)
    /\ routines' = [routines EXCEPT !.lock = g, !.pc[g] = "check"]
    /\ UNCHANGED <<inner, rev, proc, patched, loggers, defaultLogger, closed, installs, last>>

\* new: if !defaultLogger.initialized
GoCheck(g) ==
    /\ proc = "run"
    /\ routines.pc[g] = "check"
    /\ routines' = [routines EXCEPT !.chk[g] = ~loggers[defaultLogger].initialized,
                                    !.pc[g] = "set"]
    /\ UNCHANGED <<inner, rev, proc, patched, loggers, defaultLogger, closed, installs, last>>

\* new: defaultLogger = &l where the test held, then the deferred Unlock
GoSet(g) ==
    /\ proc = "run"
    /\ routines.pc[g] = "set"
    /\ defaultLogger' = IF routines.chk[g] THEN routines.id[g] ELSE defaultLogger
    /\ installs' = IF routines.chk[g] THEN installs + 1 ELSE installs
    /\ routines' = [routines EXCEPT !.lock = 0, !.pc[g] = "done"]
    /\ UNCHANGED <<inner, rev, proc, patched, loggers, closed, last>>

NextConc ==
    \/ \E g \in Goroutines : GoCtx(g)
    \/ \E g \in Goroutines : GoCtxWord(g)
    \/ \E g \in Goroutines : GoWith(g)
    \/ \E g \in Goroutines : GoWithRead(g)
    \/ \E g \in Goroutines : GoWithStore(g)
    \/ \E g \in Goroutines : GoBindLock(g)
    \/ \E g \in Goroutines : GoBindTest(g)
    \/ \E g \in Goroutines : GoBindValue(g)
    \/ \E g \in Goroutines : GoBindWith(g)
    \/ \E g \in Goroutines : GoBindStore(g)
    \/ \E g \in Goroutines : GoFormat(g)
    \/ \E g \in Goroutines : GoFormatLen(g)
    \/ \E g \in Goroutines : GoFormatRange(g)
    \/ \E g \in Goroutines : GoFormatLookup(g)
    \/ \E g \in Goroutines : GoLock(g)
    \/ \E g \in Goroutines : GoWrite(g)
    \/ \E g \in Goroutines : GoUnlock(g)
    \/ \E g \in Goroutines : GoClear(g)
    \/ \E g \in Goroutines : GoCrash(g)

\* goroutines calling With and Info on one logger
SpecConc == InitConc /\ [][NextConc]_vars

\* the calls that take logLock, by goroutines
NextLock ==
    \/ NextConc
    \/ \E g \in Goroutines : GoClose(g)
    \/ \E g \in Goroutines : GoNew(g)
    \/ \E g \in Goroutines : GoNewLock(g)
    \/ \E g \in Goroutines : GoCheck(g)
    \/ \E g \in Goroutines : GoSet(g)

\* every goroutine that can take a step is scheduled in the end
SpecLock == InitLock /\ [][NextLock]_vars /\ WF_vars(NextLock)

\* constructor calls by goroutines, after initialize()
NextInstall ==
    \/ \E g \in Goroutines : GoNew(g)
    \/ \E g \in Goroutines : GoNewLock(g)
    \/ \E g \in Goroutines : GoCheck(g)
    \/ \E g \in Goroutines : GoSet(g)

SpecInstall == InitInstall /\ [][NextInstall]_vars

(***************************************************************************)
(* Properties.                                                             *)
(***************************************************************************)
EmitOps == {"Debug", "Debugf", "Info", "Infof", "Warning", "Warningf", "Error", "Errorf"}
FatalOps == {"Fatal", "Fatalf"}
PanicOps == {"Panic", "Panicf"}
CtorOps == {"NewStdLogger", "NewJsonLogger", "NewColorLogger", "New", "NewSyslogLogger", "Init"}

\* the destinations the write events of tr reached, in order
WriteDsts(tr) ==
    LET ws == SelectSeq(tr, LAMBDA e : e.ev = "write")
    IN  [i \in DOMAIN ws |-> ws[i].w]

\* the position of an event in the order write, close, end
Rank(e) == CASE e.ev = "write" -> 1 [] e.ev \in {"close", "report"} -> 2 [] OTHER -> 3

\* the closers the close events of tr closed, in order
CloseDsts(tr) ==
    LET cs == SelectSeq(tr, LAMBDA e : e.ev = "close")
    IN  [i \in DOMAIN cs |-> cs[i].w]

\* C1: ordered-levels gate.  In the revisions with ordered levels, an emit at
\* level L through a logger with threshold T writes one line to every writer
\* of L's channel if T >= L and writes nothing otherwise; Fatal is the lowest
\* level, and with the default threshold (Info) a Debug emit writes nothing
\* while Info, Warning and Error emits write their line.
C1_OrderedGate ==
    (~Bare(rev) /\ last.op \in EmitOps \cup FatalOps) =>
        LET L == loggers[last.lg]
            n == Level(rev)[last.sev]
        IN  /\ \A s \in Sevs(rev) : Level(rev).fatal <= Level(rev)[s]
            /\ L.level >= n => WriteDsts(last.tr) = L.log[last.sev].w
            /\ L.level < n => last.tr = <<>>
            /\ L.level = Level(rev).info =>
                 /\ last.sev = "debug" => ~Wrote(last.tr)
                 /\ last.sev \in {"info", "warning", "error"} => Wrote(last.tr)

\* an emit exactly at the threshold has written its line
C1_Witness ==
    /\ rev = "ordered"
    /\ last.op = "Warning"
    /\ loggers[last.lg].level = LevelOrdered.warning
    /\ WriteDsts(last.tr) = <<W("buf1"), Stdout>>

\* C2 as stated: a Fatal or Panic emit writes its line to the level's writers
\* whatever threshold or mask the logger has.
C2_AlwaysWritten ==
    last.op \in FatalOps \cup PanicOps =>
        WriteDsts(last.tr) = loggers[last.lg].log[last.sev].w

\* C2, amended: a Fatal emit writes its line under every ordered threshold
\* (and in the init revision, whose output has no gate); a Panic emit writes
\* its line exactly when the threshold is LevelPanic or above, so not under
\* the threshold LevelFatal; under a mask a Fatal emit writes its line
\* exactly when the mask holds the Fatal bit.
C2_WrittenWhenAdmitted ==
    last.op \in FatalOps \cup PanicOps =>
        LET L == loggers[last.lg]
            admitted == CASE rev = "mask" -> L.level % 2 = 1
                          [] last.sev = "fatal" -> TRUE
                          [] OTHER -> L.level # LevelPanic.fatal
        IN  /\ admitted => WriteDsts(last.tr) = L.log[last.sev].w
            /\ ~admitted => ~Wrote(last.tr)

\* a Panic emit under the threshold LevelFatal wrote nothing
C2_Witness ==
    /\ rev = "panic"
    /\ last.op = "Panic"
    /\ loggers[last.lg].level = LevelPanic.fatal
    /\ ~Wrote(last.tr)

\* C3: the terminal action does not depend on the gate.  Every Fatal or
\* Fatalf call ends in os.Exit(1) and every Panic or Panicf call ends in a
\* panic that carries the message, whether or not the gate let the line
\* through; unless a harness intercepts it, the process is over.
C3_TerminalAlways ==
    /\ last.op \in FatalOps =>
         /\ End(last.tr) = "exit"
         /\ last.tr[Len(last.tr)].val = <<"1">>
         /\ ~patched => proc = "exited"
    /\ last.op \in PanicOps =>
         /\ End(last.tr) = "panic"
         /\ last.tr[Len(last.tr)].val = last.msg
         /\ ~patched => proc = "panicked"

\* a Fatalf call whose line the mask suppressed has ended the process
C3_Witness ==
    /\ rev = "mask"
    /\ last.op = "Fatalf"
    /\ ~Wrote(last.tr)
    /\ proc = "exited"

\* in the trace of a Fatal emit the writes come first, then the closes, in
\* the order of the logger's closers, and os.Exit(1) is the one last event
FatalOrder ==
    /\ \A i, j \in DOMAIN last.tr : i < j => Rank(last.tr[i]) <= Rank(last.tr[j])
    /\ \A i \in DOMAIN last.tr : last.tr[i].ev = "exit" => i = Len(last.tr)
    /\ last.tr[Len(last.tr)].ev = "exit"
    /\ CloseDsts(last.tr) = loggers[last.lg].closers

\* C4 as stated: in every execution of a Fatal emit the line is written,
\* then the logger's closers are closed, then os.Exit(1) is called; the exit
\* never comes before the line has been written.
C4_WrittenBeforeExit ==
    last.op \in FatalOps => FatalOrder /\ last.tr[1].ev = "write"

\* C4, amended: in every execution of a Fatal emit the writes of the line
\* come first, then the logger's closers are closed, then os.Exit(1) is
\* called, once and last.  The line is written to every writer of the Fatal
\* channel when the gate admits it: always under ordered levels and without
\* a gate, and under a mask that has the Fatal bit; under a mask without the
\* Fatal bit no line is written and the call still closes and exits.
C4_WriteCloseExit ==
    last.op \in FatalOps =>
        LET L == loggers[last.lg]
            admitted == gate(rev, L.level, Level(rev).fatal)
        IN  /\ FatalOrder
            /\ admitted => last.tr[1].ev = "write" /\ WriteDsts(last.tr) = L.log.fatal.w
            /\ ~admitted => ~Wrote(last.tr)
            /\ admitted <=> (rev = "mask" => L.level % 2 = 1)

\* a Fatal emit on a logger with system-log handles: written, closed, exited
C4_Witness ==
    /\ last.op = "Fatal"
    /\ Len(last.tr) > 2
    /\ last.tr[1].ev = "write"
    /\ last.tr[Len(last.tr) - 1].ev = "close"
    /\ last.tr[Len(last.tr)].ev = "exit"

\* sub occurs in txt as a run of consecutive tokens
Contains(txt, sub) ==
    \E i \in 0 .. (Len(txt) - Len(sub)) : \A j \in DOMAIN sub : txt[i + j] = sub[j]

\* the keys a formatter sets itself in every line
ReservedKeys(f) == IF f = "json" THEN {"msg", "level", "time", "file"} ELSE {}

\* the text names key k as a field
HasKey(txt, k, f) ==
    IF f = "json" THEN Contains(txt, <<"\"", k, "\"", ":">>) ELSE Contains(txt, <<k, "=">>)

\* the text carries field k with value v
Carries(txt, k, v, f) ==
    IF f = "json" THEN Contains(txt, <<"\"", k, "\"", ":">> \o jsonValue(v))
    ELSE Contains(txt, <<k, "=">> \o valueStr(v) \o <<" ">>)

\* the texts of the lines call c wrote
Lines(c) == {c.tr[i].line.text : i \in {j \in DOMAIN c.tr : c.tr[j].ev = "write"}}

\* C5: post-emit clear.  After any emit call, at any level, admitted or
\* suppressed by the gate, the Fatal and Panic paths under a harness
\* included, the logger's one-shot field set is empty; and an emit that no
\* With preceded (and no bound context feeds) writes a line without fields.
C5_ClearedAfterEmit ==
    last.op \in EmitOps \cup FatalOps \cup PanicOps =>
        LET L == loggers[last.lg]
        IN  /\ L.fields = NoFields
            /\ (last.pre = NoFields /\ ~L.ctx.has) =>
                 \A txt \in Lines(last), k \in Keys \ ReservedKeys(L.formatter) :
                     ~HasKey(txt, k, L.formatter)

\* a Debug emit the gate suppressed, after With: the fields are gone
C5_Witness ==
    /\ last.op = "Debug"
    /\ last.pre # NoFields
    /\ last.tr = <<>>
    /\ loggers[last.lg].fields = NoFields

\* C6 as stated: once WithContextFields(ctx, F) was called, the line of every
\* emit carries every key and value of the F that is bound, and no field
\* that is neither in it nor attached by With.
C6_CarriesAllOfF ==
    (last.op \in EmitOps \cup FatalOps \cup PanicOps /\ loggers[last.lg].ctx.has) =>
        LET L == loggers[last.lg]
        IN  \A txt \in Lines(last) :
              /\ \A k \in DOMAIN L.ctx.f : Carries(txt, k, L.ctx.f[k], L.formatter)
              /\ \A k \in Keys \ ReservedKeys(L.formatter) :
                     HasKey(txt, k, L.formatter) => k \in DOMAIN L.ctx.f \cup DOMAIN last.pre

\* C6, amended: the line of every emit carries every key and value of the
\* bound F, except that under the JSON formatter the keys the formatter
\* sets itself keep the formatter's value: "msg" is the message of the call;
\* a key of an earlier F that is neither in the bound one nor attached by
\* With is not in the line.
C6_CarriesFButReserved ==
    (last.op \in EmitOps \cup FatalOps \cup PanicOps /\ loggers[last.lg].ctx.has) =>
        LET L == loggers[last.lg]
        IN  \A txt \in Lines(last) :
              /\ \A k \in DOMAIN L.ctx.f \ ReservedKeys(L.formatter) :
                     Carries(txt, k, L.ctx.f[k], L.formatter)
              /\ L.formatter = "json" => Carries(txt, "msg", StrVal(last.msg), "json")
              /\ \A k \in Keys \ ReservedKeys(L.formatter) :
                     HasKey(txt, k, L.formatter) => k \in DOMAIN L.ctx.f \cup DOMAIN last.pre

\* an emit after a second WithContextFields, and after a With of the same
\* key with another value: the line carries the bound value
C6_Witness ==
    /\ last.op = "Info"
    /\ loggers[last.lg].ctx.has
    /\ "a" \in DOMAIN loggers[last.lg].ctx.f
    /\ "a" \in DOMAIN last.pre
    /\ last.pre["a"] # loggers[last.lg].ctx.f["a"]
    /\ \E txt \in Lines(last) : Carries(txt, "a", loggers[last.lg].ctx.f["a"], loggers[last.lg].formatter)

\* C7: LogFields.Add, as With applies it to the one-shot fields A of a logger
\* and its argument B.  Add(F, {}) = F and Add({}, F) = F; the result has
\* exactly the keys of A and B; a key of B has B's value, every other key A's.
C7_AddLastWriteWins ==
    (~Bare(rev) /\ last.op = "With") =>
        LET A == last.pre
            B == last.arg
            R == loggers[last.lg].fields
        IN  /\ B = NoFields => R = A
            /\ A = NoFields => R = B
            /\ DOMAIN R = DOMAIN A \cup DOMAIN B
            /\ \A k \in DOMAIN B : R[k] = B[k]
            /\ \A k \in DOMAIN A \ DOMAIN B : R[k] = A[k]

\* With over fields that share a key with other values and differ in another
C7_Witness ==
    /\ ~Bare(rev)
    /\ last.op = "With"
    /\ DOMAIN last.pre = {"a", "msg"}
    /\ DOMAIN last.arg = {"a"}
    /\ last.pre["a"] # last.arg["a"]
    /\ loggers[last.lg].fields["a"] = last.arg["a"]
    /\ loggers[last.lg].fields["msg"] = last.pre["msg"]

\* the explicit writers among the destinations of logger i
Own(i) == {w \in Buffers : \E s \in Sevs(rev) : \E n \in DOMAIN loggers[i].log[s].w :
                                 loggers[i].log[s].w[n] = w}

\* a step in which a constructor returned a logger
Constructed == last'.op \in CtorOps /\ Len(loggers') = Len(loggers) + 1

\* C8: the default is replaced at most once.  After initialize() the first
\* constructor call installs the logger it returns as the default; every
\* later constructor call returns a new logger beside the existing ones and
\* leaves the default as it is.
C8_DefaultReplacedOnce ==
    [][Constructed =>
          /\ ~loggers[defaultLogger].initialized =>
               defaultLogger' = Len(loggers') /\ loggers'[defaultLogger'].initialized
          /\ loggers[defaultLogger].initialized => defaultLogger' = defaultLogger
          /\ \A i \in DOMAIN loggers : loggers'[i] = loggers[i]
          /\ installs' <= 1]_vars

\* initialize(), then two constructor calls: the first is the default, the
\* second is not
C8_Witness ==
    /\ Len(loggers) = 5
    /\ ~loggers[3].initialized
    /\ loggers[4].initialized
    /\ last.op \in CtorOps
    /\ last.lg = 5
    /\ loggers[5].initialized
    /\ defaultLogger = 4
    /\ installs = 1

\* the loggers the constructor calls of the caller returned: the initialized
\* ones, but for the one init() builds itself
ByCaller == {i \in DOMAIN loggers : loggers[i].initialized} \ (IF rev = "init" THEN {} ELSE {2})

\* C9 as stated: until the caller's first constructor call the default logger
\* is the stderr-only fallback.
C9_FallbackUntilConstructed ==
    (proc = "run" /\ ByCaller = {}) => ~loggers[defaultLogger].initialized

\* C9, amended: but for the init revision, package initialisation itself
\* calls NewStdLogger(), so from the start the default is an initialized
\* standard logger on stdout and stderr, without the warning prefix, and the
\* caller's first constructor call leaves it in place; the default is the
\* stderr-only fallback only after initialize(), and then the next
\* constructor call replaces it.  In the init revision init() calls
\* initialize() alone: the default is the fallback until the caller's first
\* constructor call, which replaces it.
C9_StdLoggerFromInit ==
    /\ (last.op = "init" /\ rev # "init") =>
         /\ defaultLogger = 2
         /\ loggers[2].initialized
         /\ loggers[2].log["info"].w = <<Stdout>>
         /\ loggers[2].log["error"].w = <<Stderr>>
         /\ loggers[2].log["info"].prefix = <<tagInfo>>
    /\ (last.op \in CtorOps /\ rev # "init" /\ last.lg = 3 /\ Len(loggers) = 3) =>
         defaultLogger = 2
    /\ (last.op = "init" /\ rev = "init") =>
         defaultLogger = 1 /\ loggers[1] = initLogger(rev)
    /\ (rev = "init" /\ proc = "run" /\ ByCaller = {}) => ~loggers[defaultLogger].initialized
    /\ (last.op \in CtorOps /\ rev = "init" /\ last.lg = 2 /\ Len(loggers) = 2) =>
         defaultLogger = 2 /\ loggers[2].initialized
    /\ (proc # "load" /\ ~loggers[defaultLogger].initialized) =>
         /\ rev # "init" => defaultLogger > 2
         /\ loggers[defaultLogger] = initLogger(rev)
         /\ \A i \in DOMAIN loggers : i > defaultLogger => ~loggers[i].initialized

\* the caller's first constructor call returned its logger, and the default
\* is still the one package initialisation built
C9_Witness ==
    /\ last.op \in CtorOps
    /\ last.lg = 3
    /\ Len(loggers) = 3
    /\ loggers[3].initialized
    /\ defaultLogger = 2

\* C10 as stated: no cross-contamination.  A logger built over a writer (by
\* New, or by Init in the init revision) has that writer, and no other
\* explicit one, first in every channel, so its lines reach its own writer.
\* An emit through a logger, the default one included, writes its line to
\* the writers of that logger's channel and to nothing else, so never to the
\* explicit writer of another logger.
C10_OwnWriterOnly ==
    /\ (last.op \in {"New", "Init"} /\ last.out # NilW /\ Len(loggers) = last.lg) =>
         /\ Own(last.lg) = {last.out}
         /\ \A s \in Sevs(rev) : loggers[last.lg].log[s].w[1] = last.out
    /\ (last.op \in EmitOps /\ ~Panicked(last.tr)) =>
         /\ WriteDsts(last.tr) = loggers[last.lg].log[last.sev].w
         /\ \A i \in DOMAIN last.tr :
              (last.tr[i].ev = "write" /\ last.tr[i].w \in Buffers) => last.tr[i].w \in Own(last.lg)
         /\ \A j \in Held : Own(j) \cap Own(last.lg) = {} =>
              \A i \in DOMAIN last.tr : last.tr[i].w \notin Own(j)

\* the logger has a system-log handle that Close was invoked on
WasClosed(L) == \E i \in DOMAIN L.closers : closed[L.closers[i]] > 0

\* C11 as stated: Close is a no-op on a logger that is not initialized or
\* already closed, so across every sequence of Close calls, the ones inside
\* Fatal and Panic included, each owned closer is closed at most once.
C11_ClosedAtMostOnce ==
    /\ \A h \in Handles : closed[h] <= 1
    /\ (last.op = "Close" /\ ~loggers[last.lg].initialized) => last.tr = <<>>

\* C12 as stated: once Close was called on a logger, every later emit on it
\* panics and writes no line to any destination.
C12_ClosedAcceptsNoWrites ==
    (last.op \in EmitOps /\ WasClosed(loggers[last.lg])) =>
        Panicked(last.tr) /\ ~Wrote(last.tr)

\* the level that lets every severity through, where levels are ordered
Verbose(r) == IF r = "ordered" THEN LevelOrdered.debug ELSE LevelPanic.debug

\* C13: logging before initialization.  After initialize() and before any
\* constructor call, a package-level emit the gate admits writes one line,
\* to stderr only, whose prefix starts with the "Logging before logger.Init"
\* warning and ends with the tag of its level, and whose text is the
\* message; with the threshold Debug every emit is admitted.  The
\* package-level Close closes nothing.  Fatal and Fatalf write their message
\* the same way and then call os.Exit(1).
C13_LoggingBeforeInit ==
    LET L == loggers[last.lg]
        line == last.tr[1].line
    IN  /\ last.op \in EmitOps \cup FatalOps =>
             /\ ~L.initialized
             /\ (~Bare(rev) /\ (L.level = Verbose(rev) \/ last.op \in FatalOps)) => Wrote(last.tr)
             /\ rev = "init" => Wrote(last.tr)
             /\ Wrote(last.tr) =>
                  /\ WriteDsts(last.tr) = <<Stderr>>
                  /\ line.prefix = <<initText, tag(last.sev)>>
                  /\ line.text = last.msg
        /\ last.op \in FatalOps => last.tr[Len(last.tr)] = Ev("exit", NilW, NoLine, <<"1">>)
        /\ last.op = "Close" => last.tr = <<>>

\* a Debugf call under the threshold Debug wrote the warning and its message
\* to stderr
C13_Witness ==
    /\ rev = "ordered"
    /\ last.op = "Debugf"
    /\ loggers[last.lg].level = LevelOrdered.debug
    /\ ~loggers[last.lg].initialized
    /\ WriteDsts(last.tr) = <<Stderr>>
    /\ last.tr[1].line.prefix[1] = initText
    /\ last.tr[1].line.text = <<"m", "f">>

\* the goroutines inside the channel write: between Lock and Unlock
InWrite == {g \in Goroutines : routines.pc[g] \in {"write", "unlock"}}

\* goroutine g is at a statement that takes logLock
Acquires(g) ==
    \/ routines.pc[g] \in {"bind", "lock", "Close", "newLock"}
    \/ routines.pc[g] = "With" /\ WithLocks(rev)
    \/ routines.pc[g] = "boundWith" /\ WithLocks(rev)
    \/ routines.pc[g] = "clear" /\ ~Bare(rev)

AllDone == \A g \in Goroutines : routines.pc[g] = "done"

\* no call is left to return: all have, or a panic has ended the process
AllOver == AllDone \/ proc = "panicked"

\* C14: writes are serialized.  Under every interleaving of concurrent emit
\* calls at most one call is inside the channel write, and it is the holder
\* of logLock; so the writes of one call to the writers of its fan-out are
\* never separated by a write of another call, and every destination
\* receives the lines whole and in one order.
C14_WritesSerialized ==
    /\ Cardinality(InWrite) <= 1
    /\ \A g \in InWrite : routines.lock = g
    /\ \A i, j, n \in DOMAIN routines.hist :
         (i < j /\ j < n /\ routines.hist[i].g = routines.hist[n].g) =>
             routines.hist[j].g = routines.hist[i].g

\* one goroutine is in the middle of its fan-out while another waits at Lock
C14_Witness ==
    /\ routines.pc[1] = "lock"
    /\ routines.pc[2] = "write"
    /\ routines.k[2] = 2
    /\ Len(routines.hist) = 1

\* C15 as stated: when goroutines each run With(F) and then an emit on the
\* same logger, every line carries exactly the fields its own goroutine
\* attached, under every interleaving.
C15_OwnFieldsOnly ==
    \A i \in DOMAIN routines.hist :
        LET g == routines.hist[i].g
        IN  routines.hist[i].text = formatFields(routines.arg[g]) \o GoMsg(g)

\* the destinations of tr whose write returned an error
FailedDsts(tr) == {tr[i].w : i \in {j \in DOMAIN tr : tr[j].ev = "error"}}

\* C16 as stated: the destinations of one fan-out are independent.  When the
\* write of an admitted emit to one destination fails, every other
\* destination of the same fan-out, the default stream added last included,
\* still receives the line, and the failed write is made once.
C16_FanOutIndependent ==
    (last.op \in EmitOps /\ FailedDsts(last.tr) # {}) =>
        LET ch == loggers[last.lg].log[last.sev]
        IN  /\ \A i \in DOMAIN ch.w :
                 ch.w[i] \notin FailedDsts(last.tr) =>
                     \E j \in DOMAIN last.tr : last.tr[j].ev = "write" /\ last.tr[j].w = ch.w[i]
            /\ Cardinality({j \in DOMAIN last.tr : last.tr[j].ev = "error"}) = 1

\* C17 as stated: a failure to acquire the system-log channel does not
\* abort construction.  The constructor returns an initialized logger whose
\* destinations are the explicit writer, if any, and the default stream, and
\* the acquisition error is emitted once, at Error severity, through the new
\* logger.
C17_SyslogFailureNotFatal ==
    (last.op \in CtorOps /\ last.msg # <<>>) =>
        /\ End(last.tr) = "return"
        /\ last.lg \in DOMAIN loggers
        /\ loggers[last.lg].initialized
        /\ \A s \in DOMAIN loggers[last.lg].log :
             loggers[last.lg].log[s].w \in {<<Stdout>>, <<Stderr>>}
        /\ WriteDsts(last.tr) = <<Stderr>>
        /\ \A i \in DOMAIN last.tr :
             last.tr[i].ev = "write" =>
                 last.tr[i].line.prefix = <<tag("error")>> /\ last.tr[i].line.text = last.msg

\* the place of key k in ascending lexicographic order
Place(k) == CHOOSE i \in DOMAIN keyOrder : keyOrder[i] = k

\* the rendered text of a value, in double quotes when it has a space
Quoted(v) ==
    IF \E i \in DOMAIN Sprintv(v) : Sprintv(v)[i] = " "
    THEN <<"\"">> \o Sprintv(v) \o <<"\"">>
    ELSE Sprintv(v)

\* key=value and one space for each key of F, the least key first
RECURSIVE KeyValues(_)
KeyValues(F) ==
    IF DOMAIN F = {} THEN <<>>
    ELSE LET k == CHOOSE x \in DOMAIN F : \A y \in DOMAIN F : Place(x) <= Place(y)
         IN  <<k, "=">> \o Quoted(F[k]) \o <<" ">> \o KeyValues([x \in DOMAIN F \ {k} |-> F[x]])

\* the fields the emit behind last formatted: those attached by With and the
\* bound context fields
Formatted == bound(rev, [loggers[last.lg] EXCEPT !.fields = last.pre]).fields

\* C18: plain formatter.  For every field set and message the text of the
\* line is, for each key in ascending lexicographic order, key=value and one
\* space, the value in double quotes when its rendered text has a space,
\* followed by the raw message.
C18_PlainFormat ==
    (last.op \in EmitOps \cup FatalOps \cup PanicOps /\ loggers[last.lg].formatter = "std") =>
        \A txt \in Lines(last) : txt = KeyValues(Formatted) \o last.msg

\* a line with two fields, the first of them quoted
C18_Witness ==
    /\ last.op = "Info"
    /\ loggers[last.lg].formatter = "std"
    /\ DOMAIN last.pre = {"a", "msg"}
    /\ Lines(last) = {<<"a", "=", "\"", "x", " ", "y", "\"", " ", "msg", "=", "7", " ", "m">>}

\* an emit below Fatal on a logger with threshold Debug whose header flags
\* are disabled
VerboseBare ==
    /\ ~Bare(rev)
    /\ last.op \in EmitOps
    /\ loggers[last.lg].level = Verbose(rev)
    /\ loggers[last.lg].flags = Ldisable
    /\ loggers[last.lg].log[last.sev].flags = Ldisable

\* one line for each writer of the channel, each the tag of the call's level
\* and the call's message
TagThenMessage ==
    /\ WriteDsts(last.tr) = loggers[last.lg].log[last.sev].w
    /\ \A i \in DOMAIN last.tr :
         last.tr[i].ev = "write" =>
             last.tr[i].line.prefix \o last.tr[i].line.text = <<tag(last.sev)>> \o last.msg

\* C19 as stated: on a logger with threshold Debug and header flags
\* disabled, every emit at Debug, Info, Warning and Error, plain or f-form,
\* produces exactly one line, made of the tag of the call's level followed by
\* the call's message.
C19_TagThenMessage == VerboseBare => TagThenMessage

\* the sum of the bits of a set of levels
RECURSIVE BitSum(_)
BitSum(S) ==
    IF S = {} THEN 0
    ELSE LET s == CHOOSE x \in S : TRUE IN LevelBit(s) + BitSum(S \ {s})

\* the levels whose bits make up mask M
Enabled(M) == CHOOSE S \in SUBSET Sevs("mask") : BitSum(S) = M

\* C20: bitmask gate.  Fatal, Error, Warning, Info and Debug each own a
\* distinct bit, so every mask is the sum of the bits of exactly one set of
\* levels; an emit at level L writes a line if and only if the mask has L's
\* bit; a new logger's mask enables exactly Fatal, Error, Warning and Info;
\* and under mask 0 no emit at any level writes.
C20_BitmaskGate ==
    rev = "mask" =>
        LET M == loggers[last.lg].level
        IN  /\ \A s, t \in Sevs("mask") : s # t => LevelBit(s) # LevelBit(t)
            /\ \A S, T \in SUBSET Sevs("mask") : BitSum(S) = BitSum(T) => S = T
            /\ last.op \in EmitOps \cup FatalOps =>
                 /\ Wrote(last.tr) <=> last.sev \in Enabled(M)
                 /\ M = 0 => ~Wrote(last.tr)
            /\ last.op \in CtorOps => Enabled(M) = {"fatal", "error", "warning", "info"}

\* Debug under the mask that has the Debug bit alone
C20_Witness ==
    /\ rev = "mask"
    /\ last.op = "Debug"
    /\ loggers[last.lg].level = LevelBit("debug")
    /\ Wrote(last.tr)

\* the system-log destination that setup opens for level s
SyslogOf(s) ==
    CASE s = "debug" -> "syslog.debug"
      [] s = "info" -> "syslog.notice"
      [] s = "warning" -> "syslog.warning"
      [] s = "error" -> "syslog.err"
      [] s = "fatal" -> "syslog.err"
      [] s = "panic" -> "syslog.crit"

\* the platform default stream of level s
DefaultStream(s) == IF s \in {"debug", "info", "warning"} THEN Stdout ELSE Stderr

\* the writer the constructor behind last handed to new: New of the mask
\* revision hands none
Explicit == IF rev = "mask" THEN NilW ELSE last.out

\* C21 as stated: fan-out composition.  For every level the destination list
\* of a constructed logger is the explicit writer if one was given, then the
\* system-log channel of that same level if the system log was attached and
\* acquired, then the platform default stream.
C21_FanOutComposition ==
    (last.op \in CtorOps /\ End(last.tr) = "return") =>
        \A s \in Sevs(rev) :
            loggers[last.lg].log[s].w =
                (IF Explicit # NilW THEN <<Explicit>> ELSE <<>>)
                \o (IF last.op = "NewSyslogLogger"
                    THEN <<[dst |-> SyslogOf(s), h |-> last.lg, nilptr |-> FALSE]>>
                    ELSE <<>>)
                \o <<DefaultStream(s)>>

\* the destinations with a Close method that the constructor behind last was
\* given or acquired: the explicit writer and the handles new took from
\* setup, one for each level of the revision
Closable ==
    (IF Explicit # NilW /\ IsCloser(Explicit) THEN {Explicit} ELSE {})
    \cup (IF last.op = "NewSyslogLogger"
          THEN {[dst |-> SyslogOf(s), h |-> last.lg, nilptr |-> FALSE] : s \in Sevs(rev)}
          ELSE {})

\* C22 as stated: every destination the constructor acquired or was given
\* that exposes Close, the explicit writer and each system-log channel that
\* setup returned, is in the closers list of the logger it returns.
C22_ClosersComplete ==
    (last.op \in CtorOps /\ End(last.tr) = "return") =>
        \A w \in Closable :
            \E i \in DOMAIN loggers[last.lg].closers : loggers[last.lg].closers[i] = w

\* C23 as stated: when the severity gate rejects an emit, the formatter's
\* Output is not invoked and nothing is written to any destination; the
\* transient field set is cleared.
C23_RejectedSkipsFormatting ==
    (/\ last.op \in EmitOps
     /\ ~gate(rev, loggers[last.lg].level, Level(rev)[last.sev])) =>
        /\ ~last.formatted
        /\ last.tr = <<>>
        /\ loggers[last.lg].fields = NoFields

\* C24: the order of a Panic emit.  The line is written first (when the gate
\* admits it), then every closer of the logger is closed, in the order of the
\* closers list, then the panic is raised, once and last, and its value is
\* the message rendered from the call's arguments alone: no tag, header or
\* field.
C24_WriteClosePanic ==
    last.op \in PanicOps =>
        LET L == loggers[last.lg]
            n == Len(WriteDsts(last.tr))
        IN  /\ \A i \in 1 .. n : last.tr[i].ev = "write"
            /\ \A i \in (n + 1) .. (Len(last.tr) - 1) : last.tr[i].ev \in {"close", "report"}
            /\ CloseDsts(last.tr) = L.closers
            /\ last.tr[Len(last.tr)].ev = "panic"
            /\ last.tr[Len(last.tr)].val = last.msg
            /\ last.msg \in {Sprint(v) : v \in Words} \cup {Sprintf(<<"%s", "f">>, v) : v \in Words}
            /\ gate(rev, L.level, Level(rev).panic) => WriteDsts(last.tr) = L.log.panic.w

\* a Panicf emit on a logger with system-log handles: written, closed, raised
C24_Witness ==
    /\ last.op = "Panicf"
    /\ Len(loggers[last.lg].closers) = 4
    /\ last.tr[1].ev = "write"
    /\ last.tr[1].line.prefix = <<tagPanic>>
    /\ last.tr[Len(last.tr) - 1].ev = "close"
    /\ last.tr[Len(last.tr)].ev = "panic"
    /\ last.tr[Len(last.tr)].val = <<"m", "f">>

\* C25: close-time failures are contained.  In every Close of an initialized
\* logger, the ones inside Fatal and Panic included, Close is invoked on
\* every closer of the list, in order, whether or not an earlier one returned
\* an error; each error is reported on stderr, with the closer that failed,
\* before the next closer is closed; and a call of Close returns to its
\* caller without an error or a panic.
C25_CloseFailuresContained ==
    (last.op \in {"Close"} \cup FatalOps \cup PanicOps /\ loggers[last.lg].initialized) =>
        /\ CloseDsts(last.tr) = loggers[last.lg].closers
        /\ \A i \in DOMAIN last.tr :
             /\ (last.tr[i].ev = "close" /\ last.tr[i].val # <<>>) =>
                  /\ i < Len(last.tr)
                  /\ last.tr[i + 1].ev = "report"
                  /\ last.tr[i + 1].w = Stderr
                  /\ last.tr[i + 1].val = <<"Failed to close log", last.tr[i].w.dst>>
             /\ last.tr[i].ev = "report" =>
                  i > 1 /\ last.tr[i - 1].ev = "close" /\ last.tr[i - 1].val # <<>>
        /\ last.op = "Close" => End(last.tr) = "return" /\ proc = "run"

\* Close where the second closer failed: reported, and the rest still closed
C25_Witness ==
    /\ last.op = "Close"
    /\ Len(last.tr) = 5
    /\ last.tr[2].val = <<"err">>
    /\ last.tr[3].ev = "report"
    /\ last.tr[4].ev = "close"
    /\ last.tr[5].ev = "close"

\* every channel of the JSON logger L has its header flags disabled and an
\* empty prefix
JsonChannelsBare(L) ==
    \A s \in DOMAIN L.log : L.log[s].flags = Ldisable /\ L.log[s].prefix = <<>>

\* C26 as stated: output flags do not affect a logger built with the JSON
\* formatter.  After construction and after any sequence of SetFlags calls
\* every channel's header flags stay disabled, every channel prefix stays
\* empty, and the emitted JSON payload is what it would be without those
\* SetFlags calls: the one of the flags set at construction.
C26_JsonIgnoresFlags ==
    loggers[Shared].formatter = "json" =>
        /\ JsonChannelsBare(loggers[Shared])
        /\ (last.op \in EmitOps /\ last.lg = Shared) =>
             Lines(last) \subseteq JsonOutput(Ldisable, last.sev, last.pre, last.msg)

\* C26: for a logger built with the JSON formatter, after construction and
\* after any sequence of SetFlags calls, every channel's header flags stay
\* disabled and every channel prefix stays empty; the JSON payload always
\* carries the message and the level, and it carries a time key exactly when
\* the flags last set have a date or time bit and a file key exactly when
\* they have a file bit.
C26_JsonFlagsSetHeaders ==
    loggers[Shared].formatter = "json" =>
        LET L == loggers[Shared]
        IN  /\ JsonChannelsBare(L)
            /\ (last.op \in EmitOps /\ last.lg = Shared) =>
                 \A txt \in Lines(last) :
                     /\ Carries(txt, "msg", StrVal(last.msg), "json")
                     /\ Carries(txt, "level", StrVal(<<last.sev>>), "json")
                     /\ HasKey(txt, "time", "json") <=>
                            \E b \in {Ldate, Ltime, Lmicroseconds} : HasBit(L.flags, b)
                     /\ HasKey(txt, "file", "json") <=>
                            \E b \in {Lshortfile, Llongfile} : HasBit(L.flags, b)

\* an Info line of the JSON logger after SetFlags(LstdFlags): it has a time
C26_Witness ==
    /\ loggers[Shared].formatter = "json"
    /\ loggers[Shared].flags = LstdFlags
    /\ last.op = "Info"
    /\ Wrote(last.tr)
    /\ \A txt \in Lines(last) : HasKey(txt, "time", "json")

\* C27: the lock discipline is free of deadlock.  In every interleaving of
\* emits, With, WithContextFields, Close and constructor calls no goroutine
\* comes to a statement that takes logLock while it holds logLock (the clear
\* deferred by output runs after output's unlock; the With that
\* bindContextFields calls under the lock takes no lock), a call that has
\* returned or panicked holds no lock (the Unlock of bindContextFields is
\* deferred and runs when Value panics on a half-stored l.ctx), and every
\* call comes to its end: it returns, or a panic ends the process.
C27_NoSelfDeadlock ==
    /\ [](\A g \in Goroutines : Acquires(g) => routines.lock # g)
    /\ [](\A g \in Goroutines : routines.pc[g] \in {"done", "unwind", "panicked"} =>
                                   routines.lock # g)
    /\ <>AllOver

\* bindContextFields holds the lock and is about to call With with the
\* fields it took from the context
C27_Witness ==
    /\ rev = "panic"
    /\ \E g \in Goroutines :
         /\ routines.pc[g] = "boundWith"
         /\ routines.lock = g
         /\ loggers[Shared].ctx.has
         /\ routines.rd[g] # NoFields

\* the keys attached with With for the emit behind last that are bound as
\* context fields too
Collisions == DOMAIN last.pre \cap DOMAIN loggers[last.lg].ctx.f

\* the line carries the context value of key k, and not the one-shot value
\* where the two differ
ContextValue(txt, k) ==
    LET L == loggers[last.lg]
    IN  /\ Carries(txt, k, L.ctx.f[k], L.formatter)
        /\ last.pre[k] # L.ctx.f[k] => ~Carries(txt, k, last.pre[k], L.formatter)

\* C28 as stated: when a key is both in the fields attached with With for one
\* emit and in the context fields bound with WithContextFields, the line
\* carries the context value for that key.
C28_ContextWins ==
    (last.op \in EmitOps \cup FatalOps \cup PanicOps /\ loggers[last.lg].ctx.has) =>
        \A txt \in Lines(last), k \in Collisions : ContextValue(txt, k)

\* C28: when a key is both in the fields attached with With for one emit and
\* in the context fields bound with WithContextFields, the line carries the
\* context value for that key, unless the formatter sets the key itself (msg,
\* level, time and file of the JSON formatter).
C28_ContextWinsButReserved ==
    (last.op \in EmitOps \cup FatalOps \cup PanicOps /\ loggers[last.lg].ctx.has) =>
        \A txt \in Lines(last), k \in Collisions \ ReservedKeys(loggers[last.lg].formatter) :
            ContextValue(txt, k)

\* key a attached with With as 7 and bound in the context as "x y": the line
\* of the plain formatter has a="x y"
C28_Witness ==
    /\ last.op = "Info"
    /\ loggers[last.lg].formatter = "std"
    /\ loggers[last.lg].ctx.has
    /\ "a" \in Collisions
    /\ last.pre["a"] = IntVal(7)
    /\ \A txt \in Lines(last) : Contains(txt, <<"a", "=", "\"", "x", " ", "y", "\"", " ">>)
    /\ Wrote(last.tr)

\* the loggers the goroutines' constructor calls built
BuiltBy == {routines.id[g] : g \in {h \in Goroutines : routines.id[h] # 0}}

\* C29: concurrent construction installs exactly one default.  When
\* constructor calls run concurrently after initialize(), under every
\* interleaving at most one of them replaces the default; once one of them has
\* returned, exactly one has, and the default is an initialized logger one of
\* them built; and a default that is initialized is never replaced.
C29_OneDefaultInstalled ==
    /\ [](installs <= 1)
    /\ []((\E g \in Goroutines : routines.pc[g] = "done") =>
            /\ installs = 1
            /\ defaultLogger \in BuiltBy
            /\ loggers[defaultLogger].initialized)
    /\ [][loggers[defaultLogger].initialized => defaultLogger' = defaultLogger]_vars

\* both constructors returned; the second one built found the lock first
C29_Witness ==
    /\ AllDone
    /\ installs = 1
    /\ routines.id[1] = 4
    /\ routines.id[2] = 5
    /\ defaultLogger = 5

\* C30 as stated: caller-supplied field maps are never modified.  No With or
\* emit call, with the plain or the JSON formatter, adds, removes or changes
\* a key of a map the caller passed in: the map it owns has the keys it had.
C30_CallerMapsUntouched == inner = InnerKeys

====
